---- MODULE Spec2Model ----
(***************************************************************************)
(* Model of the AI coding agent's cognitive loop (src/src/agent/core.py),  *)
(* its safety/approval gate (src/src/agent/safety/safety.py), the tool     *)
(* registry and parameter validation (src/src/agent/tools/base.py) and the *)
(* reasoning backend's provider cascade (src/src/agent/llm_integration.py).*)
(*                                                                         *)
(* Conventions.  A Python dict of parameters is a function from a finite   *)
(* set of names to values.  A value is a record [kind, v]: kind "plain" is *)
(* a scalar v, kind "default" is a dict holding a "default" entry v        *)
(* (either an envelope {"default": v} or a schema descriptor               *)
(* {"type":..,"default": v,..}), kind "value" is a dict {"value": v} and   *)
(* kind "dict" is any other dict.  Confidences and thresholds are counted  *)
(* in tenths (0.5 is 5), times in days.  The md5 digest of a decision key  *)
(* is taken to be injective, so a key is the pair it is computed from.     *)
(***************************************************************************)
EXTENDS Integers, Sequences, FiniteSets, TLC

VARIABLES
    \* SafetyFramework
    approval_history,      \* self.approval_history
    confidence_threshold,  \* self.confidence_threshold, in tenths
    now,                   \* time.time(), in days
    last_approval,         \* the last request_approval call and what it returned
    \* Agent / WorkingMemory
    auto_approve,          \* working-memory preference "auto_approve" (truthiness)
    action,                \* the action reason returned / act received
    result,                \* the result act returned
    act_trace,             \* what the last act call did (gate, execute)
    pc,                    \* position of Agent.run
    user_input,            \* the input of the current cycle (of the current step)
    steps,                 \* steps of a multi-step task still to be handled
    session_active,        \* working_memory.current_session_id is not None
    end_session_calls,     \* number of end_session calls made by run
    cycle_trace,           \* what happened in the current input cycle
    \* LLMIntegration
    provider,              \* self.provider, selected at startup
    openai_api_key,        \* self.openai_api_key is set (and openai importable)
    groq_api_key,          \* self.groq_api_key is set
    attempts,              \* providers attempted by the last generation call
    llm_trace,             \* how the last generation / reason call ended
    \* PersistentMemory
    db_path,               \* self.db_path
    store_open,            \* PersistentMemory.__init__ has run
    user_preferences,      \* table user_preferences: key -> row
    tool_effectiveness,    \* table tool_effectiveness: <<tool, context hash>> -> row
    interaction_history,   \* table interaction_history: the rows
    completed,             \* calls of each store operation that have returned
    mem_trace,             \* the last store call and what it returned
    \* threads using the store
    lock,                  \* thread holding self.lock
    threads,               \* each thread's position in the store operation it runs
    \* pure functions
    pure_trace,            \* the last call of a pure function: argument and value
    \* working memory and learning insights
    sessions,              \* WorkingMemory.sessions, in insertion order
    current_session_id,    \* WorkingMemory.current_session_id
    insights,              \* table learning_insights: the rows
    wm_trace               \* the last working-memory or learning call

safetyVars == <<approval_history, confidence_threshold, now, last_approval>>
actVars    == <<auto_approve, action, result, act_trace>>
runVars    == <<pc, user_input, steps, session_active, end_session_calls, cycle_trace>>
llmVars    == <<provider, openai_api_key, groq_api_key, attempts, llm_trace>>
memVars    == <<db_path, store_open, user_preferences,
                tool_effectiveness, interaction_history, completed, mem_trace>>
threadVars == <<lock, threads>>
wmVars     == <<sessions, current_session_id, insights, wm_trace>>
storeVars  == <<memVars, threadVars, pure_trace, wmVars>>
vars       == <<safetyVars, actVars, runVars, llmVars, storeVars>>

----------------------------------------------------------------------------
(* Bounds of the model *)

MaxHistory == 2      \* approval_history entries when request_approval is called directly
MaxAsked   == 1      \* approval_history entries when act asks for approval
MaxTime    == 8      \* last day the clock reaches
TickDays   == 4      \* days that pass in one step of the clock
MaxStores  == 3      \* store_preference calls for one key
MaxUses    == 3      \* record_tool_usage calls for one (tool, fingerprint)
MaxCycles  == 2      \* cycles of the loop followed through the store
MaxKeys    == 3      \* keys of a context that is hashed
MaxWords   == 4      \* words of a task that is split
MaxRows    == 2      \* interactions recorded after startup
MaxLearners == 1     \* learning threads started

----------------------------------------------------------------------------
(* Values and parameter dicts *)

Plain(s)      == [kind |-> "plain",   v |-> s]
DefaultEnv(s) == [kind |-> "default", v |-> s]
ValueEnv(s)   == [kind |-> "value",   v |-> s]
OtherDict     == [kind |-> "dict",    v |-> ""]
NoParams      == [kind |-> "none",    v |-> ""]

EmptyDict == [n \in {} |-> Plain("")]

\* all dicts whose keys are among names and whose values are among values
Dicts(names, values) == UNION {[s -> values] : s \in SUBSET names}

\* dict.get(name, default)
Get(d, name, default) == IF name \in DOMAIN d THEN d[name] ELSE default

\* a parameters dict: its "required" and "optional" entries, when present,
\* and its other entries (top)
Parameters(top, hasReq, req, hasOpt, opt) ==
    [top |-> top, has_required |-> hasReq, required |-> req,
     has_optional |-> hasOpt, optional |-> opt]

Flat(d) == Parameters(d, FALSE, EmptyDict, FALSE, EmptyDict)

----------------------------------------------------------------------------
(* SafetyFramework: static classification *)

destructive_operations ==
    {"write_file", "delete_file", "git_commit", "git_merge", "run_command", "build_project"}

high_risk_operations == {"delete_file", "git_merge", "run_command"}

\* a gate that takes no operation for destructive
is_destructive_none(operation) == FALSE

is_destructive(operation) == operation \in destructive_operations

get_risk_level(operation) ==
    IF operation \in high_risk_operations THEN "high"
    ELSE IF operation \in destructive_operations THEN "medium"
    ELSE "low"

auto_approve_safe  == FALSE
remember_decisions == TRUE
InitialThreshold   == 8
InitialConfidence  == 5
ConfidenceStep     == 1
RememberWindow     == 7

\* operations the Agent registers an approval callback for
approval_callbacks == {"write_file", "git_commit", "run_command"}

----------------------------------------------------------------------------
(* SafetyFramework: memoized decisions *)

\* _create_decision_key: the operation and the one parameter it keeps
_create_decision_key(operation, parameters) ==
    [operation |-> operation,
     simplified |->
        IF operation = "write_file" THEN Get(parameters.top, "file_path", Plain(""))
        ELSE IF operation = "run_command" THEN Get(parameters.top, "command", Plain(""))
        ELSE IF operation = "git_commit" THEN Get(parameters.top, "message", Plain(""))
        ELSE NoParams]

NoKey == [operation |-> "", simplified |-> NoParams]

Min(a, b) == IF a < b THEN a ELSE b
Max(a, b) == IF a > b THEN a ELSE b

NotRemembered == [found |-> FALSE, approved |-> FALSE, confidence |-> 0]

\* the loop of _get_remembered_decision over reversed(history), from entry i down
RECURSIVE ScanHistory(_, _, _, _)
ScanHistory(history, i, cutoff_time, decision_key) ==
    IF i = 0 THEN NotRemembered
    ELSE IF history[i].timestamp < cutoff_time THEN NotRemembered
    ELSE IF history[i].has_decision_key /\ history[i].decision_key = decision_key
         THEN [found |-> TRUE, approved |-> history[i].approved,
               confidence |-> Min(10, history[i].confidence + ConfidenceStep)]
    ELSE ScanHistory(history, i - 1, cutoff_time, decision_key)

_get_remembered_decision(history, time, operation, parameters) ==
    ScanHistory(history, Len(history), time - RememberWindow,
                _create_decision_key(operation, parameters))

\* _remember_decision: runs before the new entry is appended, so it marks
\* the entry that is last at that moment
_remember_decision(history, operation, parameters) ==
    IF Len(history) > 0
    THEN [history EXCEPT ![Len(history)] =
            [@ EXCEPT !.has_decision_key = TRUE,
                      !.decision_key = _create_decision_key(operation, parameters),
                      !.confidence = InitialConfidence]]
    ELSE history

\* the Agent's callbacks (_approve_file_write, _approve_git_commit,
\* _approve_command_execution): auto_approve answers for the user
ApprovalCallback(auto, answer) == IF auto THEN TRUE ELSE answer

\* _get_manual_approval
_get_manual_approval(operation, answer) ==
    IF auto_approve_safe /\ get_risk_level(operation) = "low" THEN TRUE ELSE answer

\* request_approval: answer is what the user types when asked.  The outcome
\* is the value returned, whether the callback or prompt was invoked, what
\* the lookup found, and the history afterwards.  A history entry keeps its
\* "parameters" up to fingerprint equality and leaves out the preview.
request_approval(history, threshold, time, auto, operation, parameters, answer) ==
    LET remembered == _get_remembered_decision(history, time, operation, parameters)
        approved   == IF operation \in approval_callbacks
                      THEN ApprovalCallback(auto, answer)
                      ELSE _get_manual_approval(operation, answer)
        marked     == IF remember_decisions
                      THEN _remember_decision(history, operation, parameters)
                      ELSE history
        entry      == [operation |-> operation,
                       parameters |-> _create_decision_key(operation, parameters).simplified,
                       approved |-> approved, timestamp |-> time,
                       has_decision_key |-> FALSE, decision_key |-> NoKey,
                       confidence |-> 0]
    IN  IF remember_decisions /\ remembered.found /\ remembered.confidence >= threshold
        THEN [returned |-> remembered.approved, prompted |-> FALSE,
              found |-> remembered.found, confidence |-> remembered.confidence,
              history |-> history]
        ELSE [returned |-> approved, prompted |-> TRUE,
              found |-> remembered.found, confidence |-> remembered.confidence,
              history |-> Append(marked, entry)]

\* set_confidence_threshold clamps to [0, 1]
set_confidence_threshold(threshold) == Max(0, Min(10, threshold))

----------------------------------------------------------------------------
(* Tool registry and parameter schemas *)

\* a registry that lacks list_directory
Registry_without_list ==
    {"read_file", "write_file",
     "git_status", "git_diff", "git_commit",
     "run_command", "run_tests", "build_project",
     "run_linter", "analyze_dependencies", "find_references",
     "search_codebase", "get_structure",
     "backup_file", "restore_file", "list_backups",
     "generate_test",
     "set_preference", "show_preferences", "show_learning"}

\* Agent._register_tools: the names in the registry
Registry ==
    {"read_file", "write_file", "list_directory",
     "git_status", "git_diff", "git_commit",
     "run_command", "run_tests", "build_project",
     "run_linter", "analyze_dependencies", "find_references",
     "search_codebase", "get_structure",
     "backup_file", "restore_file", "list_backups",
     "generate_test",
     "set_preference", "show_preferences", "show_learning"}

\* tool.parameters.get("required", []), in declaration order
required_params(tool) ==
    CASE tool = "read_file"       -> <<"file_path">>
      [] tool = "write_file"      -> <<"file_path", "content">>
      [] tool = "git_commit"      -> <<"message">>
      [] tool = "run_command"     -> <<"command">>
      [] tool = "find_references" -> <<"name">>
      [] tool = "search_codebase" -> <<"pattern">>
      [] tool = "backup_file"     -> <<"file_path">>
      [] tool = "restore_file"    -> <<"backup_path">>
      [] tool = "generate_test"   -> <<"file_path", "function_name">>
      [] tool = "set_preference"  -> <<"key", "value">>
      [] OTHER                    -> << >>

\* tool.parameters.get("optional", {}): name -> the schema's entry for it,
\* which is a descriptor dict with a "default" entry for most tools and a
\* bare default for git_diff and git_commit
optional_params(tool) ==
    CASE tool = "list_directory"  -> [n \in {"path"} |-> DefaultEnv(".")]
      [] tool = "git_diff"        -> [n \in {"file_path"} |-> Plain("")]
      [] tool = "git_commit"      -> [n \in {"files"} |-> Plain("[]")]
      [] tool = "run_command"     -> [n \in {"working_directory"} |-> DefaultEnv("")]
      [] tool = "run_tests"       -> [n \in {"test_path", "test_framework"} |-> DefaultEnv("")]
      [] tool = "build_project"   ->
            [n \in {"target", "configuration"} |->
                IF n = "target" THEN DefaultEnv("") ELSE DefaultEnv("release")]
      [] tool = "run_linter"      -> [n \in {"file_path", "linter"} |-> DefaultEnv("")]
      [] tool = "analyze_dependencies" -> [n \in {"file_path"} |-> DefaultEnv("")]
      [] tool = "find_references" -> [n \in {"file_path", "file_type"} |-> DefaultEnv("")]
      [] tool = "search_codebase" ->
            [n \in {"file_pattern", "case_sensitive", "include_binary"} |->
                IF n = "file_pattern" THEN DefaultEnv("*") ELSE DefaultEnv("False")]
      [] tool = "get_structure"   ->
            [n \in {"path", "max_depth", "include_files", "exclude_patterns"} |->
                CASE n = "path" -> DefaultEnv(".")
                  [] n = "max_depth" -> DefaultEnv("5")
                  [] n = "include_files" -> DefaultEnv("True")
                  [] OTHER -> DefaultEnv("list")]
      [] tool = "backup_file"     -> [n \in {"backup_dir"} |-> DefaultEnv("")]
      [] tool = "restore_file"    ->
            [n \in {"target_path", "create_backup"} |->
                IF n = "target_path" THEN DefaultEnv("") ELSE DefaultEnv("True")]
      [] tool = "list_backups"    -> [n \in {"backup_dir", "file_pattern"} |-> DefaultEnv("")]
      [] tool = "generate_test"   -> [n \in {"test_framework"} |-> DefaultEnv("")]
      [] OTHER                    -> EmptyDict

Range(seq) == {seq[i] : i \in 1..Len(seq)}

\* what one optional parameter resolves to in validate_parameters
ResolveOptional(supplied, param, default_value) ==
    IF param \in DOMAIN supplied
    THEN CASE supplied[param].kind = "default" -> Plain(supplied[param].v)
           [] supplied[param].kind = "value"   -> Plain(supplied[param].v)
           [] supplied[param].kind = "dict"    -> default_value
           [] OTHER                            -> supplied[param]
    ELSE default_value

\* BaseTool.validate_parameters.  errors holds the name each
\* "Missing required parameter: <name>" message is about, in order.
validate_parameters(tool, parameters) ==
    LET required == required_params(tool)
        optional == optional_params(tool)
        supplied == IF parameters.has_required THEN parameters.required
                    ELSE IF parameters.has_optional THEN parameters.optional
                    ELSE parameters.top
        IsMissing(param) == param \notin DOMAIN supplied
        errors   == SelectSeq(required, IsMissing)
        present  == {param \in Range(required) : param \in DOMAIN supplied}
        validated == [param \in present \cup DOMAIN optional |->
                        IF param \in DOMAIN optional
                        THEN ResolveOptional(supplied, param, optional[param])
                        ELSE supplied[param]]
    IN  IF Len(errors) > 0
        THEN [valid |-> FALSE, errors |-> errors, parameters |-> EmptyDict]
        ELSE [valid |-> TRUE, errors |-> << >>, parameters |-> validated]

\* Agent._fix_parameter_structure: returns one flat dict
_fix_parameter_structure(tool_name, parameters) ==
    LET fixed == IF parameters.has_optional THEN parameters.optional
                 ELSE IF parameters.has_required THEN parameters.required
                 ELSE parameters.top
    IN  IF tool_name = "analyze_dependencies" /\ "file_path" \in DOMAIN fixed
           /\ fixed["file_path"].kind \in {"default", "value", "dict"}
        THEN [fixed EXCEPT !["file_path"] =
                IF @.kind = "dict" THEN Plain("") ELSE Plain(@.v)]
        ELSE fixed

----------------------------------------------------------------------------
(* Initial values *)

NoApproval ==
    [called |-> FALSE, flip |-> FALSE, operation |-> "", parameters |-> NoParams,
     returned |-> FALSE, prompted |-> FALSE, found |-> FALSE, confidence |-> 0,
     threshold |-> 0, time |-> 0]

NoAction   == [kind |-> "none", tool_name |-> "None", parameters |-> Flat(EmptyDict)]
NoResult   == [status |-> "none", success |-> FALSE, error |-> "", errors |-> << >>]
NoActTrace == [called |-> FALSE, auto |-> FALSE, asked |-> FALSE, approved |-> FALSE,
               executed |-> FALSE, raised |-> FALSE]
NoCycle    == [raised |-> "", ended_by |-> "", learned |-> FALSE, store_failed |-> FALSE]
NoLLM      == [called |-> "none", winner |-> "none", path |-> "none",
               response |-> [has_content |-> FALSE,
                             body |-> [kind |-> "none", tool_name |-> "None",
                                       parameters |-> Flat(EmptyDict)]]]

SafetyInit ==
    /\ approval_history = << >>
    /\ confidence_threshold = InitialThreshold
    /\ now = 0
    /\ last_approval = NoApproval

\* Agent.__init__: auto_approve comes from the store (_load_learned_preferences)
ActInit ==
    /\ auto_approve \in BOOLEAN
    /\ action = NoAction
    /\ result = NoResult
    /\ act_trace = NoActTrace

\* Agent.__init__ starts the working-memory session
RunInit ==
    /\ pc = "read_input"
    /\ user_input = ""
    /\ steps = << >>
    /\ session_active = TRUE
    /\ end_session_calls = 0
    /\ cycle_trace = NoCycle

----------------------------------------------------------------------------
(* SafetyFramework operations, called directly *)

\* the (operation, parameters) pairs request_approval is called with
SafetyCalls ==
    {<<"write_file",  Flat([n \in {"file_path"} |-> Plain("a")])>>,
     <<"write_file",  Flat([n \in {"file_path", "content"} |-> Plain("a")])>>,
     <<"write_file",  Flat([n \in {"file_path"} |-> Plain("b")])>>,
     <<"run_command", Flat([n \in {"command"} |-> Plain("a")])>>,
     <<"delete_file", Flat([n \in {"file_path"} |-> Plain("a")])>>}

\* arguments set_confidence_threshold is called with, in tenths
ThresholdInputs == {-5, 6, 8, 15}

\* one request_approval call and its record in last_approval
RequestApproval(operation, parameters, answer, bound) ==
    LET out == request_approval(approval_history, confidence_threshold, now,
                                auto_approve, operation, parameters, answer)
    IN  /\ Len(out.history) <= bound
        /\ approval_history' = out.history
        /\ last_approval' =
              [called |-> TRUE, flip |-> ~last_approval.flip,
               operation |-> operation,
               parameters |-> _create_decision_key(operation, parameters).simplified,
               returned |-> out.returned, prompted |-> out.prompted,
               found |-> out.found, confidence |-> out.confidence,
               threshold |-> confidence_threshold, time |-> now]

RequestApprovalCall ==
    \E call \in SafetyCalls, answer \in BOOLEAN :
        /\ RequestApproval(call[1], call[2], answer, MaxHistory)
        /\ UNCHANGED <<storeVars, confidence_threshold, now, actVars, runVars, llmVars>>

SetConfidenceThreshold ==
    \E threshold \in ThresholdInputs :
        /\ confidence_threshold' = set_confidence_threshold(threshold)
        /\ UNCHANGED <<storeVars, approval_history, now, last_approval, actVars, runVars, llmVars>>

\* time passes
Tick ==
    /\ now + TickDays <= MaxTime
    /\ now' = now + TickDays
    /\ UNCHANGED <<storeVars, approval_history, confidence_threshold, last_approval,
                   actVars, runVars, llmVars>>

----------------------------------------------------------------------------
(* User inputs and the rule-based matchers *)

\* inputs typed by the user (already lower-case and trimmed)
UserInputs ==
    {"list files", "git status", "show structure", "read a.txt",
     "what's in package.json", "read notes", "hello",
     "show preferences", "show learning", "set preference verbosity high"}

\* which phrase lists of the matchers have a phrase occurring in the input
InputPhrases(text) ==
    CASE text = "list files"             -> {"list"}
      [] text = "git status"             -> {"git"}
      [] text = "show structure"         -> {"structure"}
      [] text = "read a.txt"             -> {"read"}
      [] text = "what's in package.json" -> {"read"}
      [] text = "read notes"             -> {"read"}
      [] text = "list files next"        -> {"list"}
      [] OTHER                           -> {}

\* the file path the matchers extract from the input ("" when the regex and
\* the last-dotted-word search both find nothing)
InputFile(text) ==
    CASE text = "read a.txt"             -> "a.txt"
      [] text = "what's in package.json" -> "package.json"
      [] OTHER                           -> ""

\* the prompt reason builds around the input contains "Current Directory",
\* "Git Status" and "read a file", whatever the input
TemplatePhrases == {"list", "git", "read"}

UserMessage(text)   == [prompt |-> FALSE, input |-> text]
PromptMessage(text) == [prompt |-> TRUE,  input |-> text]

MessagePhrases(message) ==
    InputPhrases(message.input) \cup (IF message.prompt THEN TemplatePhrases ELSE {})

\* texts and parsed values exchanged with the backend
JsonAction(tool, parameters) ==
    [kind |-> "json_action", tool_name |-> tool, parameters |-> parameters]
JsonOther   == [kind |-> "json_other",   tool_name |-> "None", parameters |-> Flat(EmptyDict)]
JsonNonDict == [kind |-> "json_nondict", tool_name |-> "None", parameters |-> Flat(EmptyDict)]
Garbage     == [kind |-> "garbage",      tool_name |-> "None", parameters |-> Flat(EmptyDict)]
\* a Python dict where a JSON string is expected
DictOf(tool, parameters) ==
    [kind |-> "dict", tool_name |-> tool, parameters |-> parameters]

ActionOf(tool, parameters) ==
    [kind |-> "action", tool_name |-> tool, parameters |-> parameters]
NonDictAction == [kind |-> "non_dict", tool_name |-> "None", parameters |-> Flat(EmptyDict)]

ListDirectoryHere == Flat([n \in {"path"} |-> Plain(".")])
ReadFileParams(file) ==
    Flat([n \in {"file_path"} |-> Plain(IF file = "" THEN "test.txt" ELSE file)])

\* LLMIntegration._generate_fallback_response: on the last user message
_generate_fallback_response(message) ==
    LET phrases == MessagePhrases(message)
    IN  IF "list" \in phrases THEN JsonAction("list_directory", ListDirectoryHere)
        ELSE IF "git" \in phrases THEN JsonAction("git_status", Flat(EmptyDict))
        ELSE IF "structure" \in phrases
             THEN JsonAction("get_structure", Flat([n \in {"max_depth"} |-> Plain("5")]))
        ELSE IF "read" \in phrases
             THEN DictOf("read_file", ReadFileParams(InputFile(message.input)))
        ELSE JsonAction("list_directory", ListDirectoryHere)

\* Agent._fallback_reasoning: on the raw input
_fallback_reasoning(text) ==
    LET phrases == InputPhrases(text)
    IN  IF text = "set preference verbosity high"
        THEN ActionOf("set_preference",
                      Flat([n \in {"key", "value"} |->
                              IF n = "key" THEN Plain("verbosity") ELSE Plain("high")]))
        ELSE IF text = "show preferences" THEN ActionOf("show_preferences", Flat(EmptyDict))
        ELSE IF text = "show learning" THEN ActionOf("show_learning", Flat(EmptyDict))
        ELSE IF "list" \in phrases THEN ActionOf("list_directory", ListDirectoryHere)
        ELSE IF "git" \in phrases THEN ActionOf("git_status", Flat(EmptyDict))
        ELSE IF "structure" \in phrases
             THEN ActionOf("get_structure", Flat([n \in {"max_depth"} |-> Plain("5")]))
        ELSE IF "read" \in phrases
             THEN ActionOf("read_file", ReadFileParams(InputFile(text)))
        ELSE ActionOf("list_directory", ListDirectoryHere)

----------------------------------------------------------------------------
(* LLMIntegration: provider selection and the cascade *)

Providers == {"openai", "groq", "ollama"}

\* LLMIntegration.__init__: probe holds which startup probes answer
SelectProvider(okey, gkey, probe) ==
    IF okey /\ probe["openai"] THEN "openai"
    ELSE IF gkey /\ probe["groq"] THEN "groq"
    ELSE IF probe["ollama"] THEN "ollama"
    ELSE "fallback"

LLMInit ==
    /\ openai_api_key \in BOOLEAN
    /\ groq_api_key \in BOOLEAN
    /\ \E probe \in [Providers -> BOOLEAN] :
           provider = SelectProvider(openai_api_key, groq_api_key, probe)
    /\ attempts = << >>
    /\ llm_trace = NoLLM

HasKey(p, okey, gkey) ==
    CASE p = "openai" -> okey
      [] p = "groq"   -> gkey
      [] OTHER        -> TRUE

\* the cascade in startup priority order: the current provider, then
\* OpenAI, Groq, Ollama without the current one
AttemptOrder_priority(current, okey, gkey) ==
    LET first  == IF current \in Providers /\ HasKey(current, okey, gkey)
                  THEN <<current>> ELSE << >>
        Tried(p) == p # current /\ HasKey(p, okey, gkey)
    IN  first \o SelectSeq(<<"openai", "groq", "ollama">>, Tried)

\* the providers generate_response / generate_structured_response go through
\* when each one fails: the current provider, then Ollama, then the loop
\* over ["openai", "groq"] that skips the current one
AttemptOrder(current, okey, gkey) ==
    LET first  == IF current \in Providers /\ HasKey(current, okey, gkey)
                  THEN <<current>> ELSE << >>
        second == IF current # "ollama" THEN <<"ollama">> ELSE << >>
        Tried(p) == p # current /\ HasKey(p, okey, gkey)
        third  == SelectSeq(<<"openai", "groq">>, Tried)
    IN  first \o second \o third

\* self.client exists only when OpenAI was selected at startup, so an
\* OpenAI attempt from any other configuration fails
Succeeds(p, current, ok) == ok[p] /\ (p = "openai" => current = "openai")

\* position in order of the first provider that answers, Len(order)+1 if none
RECURSIVE FirstSuccess(_, _, _, _)
FirstSuccess(order, i, current, ok) ==
    IF i > Len(order) THEN i
    ELSE IF Succeeds(order[i], current, ok) THEN i
    ELSE FirstSuccess(order, i + 1, current, ok)

\* the cascade of one call: the providers attempted and the one that answered
Cascade(current, okey, gkey, ok) ==
    LET order == AttemptOrder(current, okey, gkey)
        k     == FirstSuccess(order, 1, current, ok)
    IN  IF k > Len(order)
        THEN [attempts |-> order, winner |-> "fallback"]
        ELSE [attempts |-> SubSeq(order, 1, k), winner |-> order[k]]

Envelope(text) == [has_content |-> TRUE,  body |-> text]
Parsed(text)   == [has_content |-> FALSE, body |-> text]

\* what each provider's structured method returns for the text it received:
\* OpenAI wraps it, Groq returns the parsed JSON (the text wrapped if it does
\* not parse), Ollama re-serialises JSON and wraps anything else
StructuredResponse(winner, text, messages) ==
    CASE winner = "openai" -> Envelope(text)
      [] winner = "groq"   -> IF text.kind = "garbage" THEN Envelope(text) ELSE Parsed(text)
      [] winner = "ollama" -> IF text.kind = "garbage" THEN Envelope(JsonOther) ELSE Envelope(text)
      [] OTHER             -> Envelope(_generate_fallback_response(messages))

\* LLMIntegration.generate_structured_response
generate_structured_response(current, okey, gkey, ok, text, messages) ==
    LET c == Cascade(current, okey, gkey, ok)
    IN  [attempts |-> c.attempts, winner |-> c.winner,
         response |-> StructuredResponse(c.winner, text, messages)]

\* LLMIntegration.generate_response: same cascade, the text itself is returned
generate_response(current, okey, gkey, ok, text, messages) ==
    LET c == Cascade(current, okey, gkey, ok)
    IN  [attempts |-> c.attempts, winner |-> c.winner,
         response |-> IF c.winner = "fallback"
                      THEN _generate_fallback_response(messages) ELSE text]

----------------------------------------------------------------------------
(* Agent.reason *)

\* the part of reason after the backend call: which return statement is
\* taken (path) and the action returned
ReasonOn(text, response) ==
    IF response.has_content
    THEN CASE response.body.kind = "json_action" ->
                IF response.body.tool_name \in Registry
                THEN [path |-> "validated",
                      action |-> ActionOf(response.body.tool_name, response.body.parameters)]
                ELSE [path |-> "invalid_tool", action |-> _fallback_reasoning(text)]
           [] response.body.kind = "json_other" ->
                [path |-> "invalid_tool", action |-> _fallback_reasoning(text)]
           [] response.body.kind = "garbage" ->
                [path |-> "json_error", action |-> _fallback_reasoning(text)]
           [] OTHER ->
                [path |-> "exception", action |-> _fallback_reasoning(text)]
    ELSE [path |-> "as_is",
          action |-> IF response.body.kind = "json_nondict" THEN NonDictAction
                     ELSE ActionOf(response.body.tool_name, response.body.parameters)]

\* Agent.reason for one outcome of the backend
reason(text, current, okey, gkey, ok, backend_text) ==
    LET g == generate_structured_response(current, okey, gkey, ok, backend_text,
                                          PromptMessage(text))
        r == ReasonOn(text, g.response)
    IN  [attempts |-> g.attempts, winner |-> g.winner, response |-> g.response,
         path |-> r.path, action |-> r.action]

----------------------------------------------------------------------------
(* Agent.act *)

Returned(success, error, errors) ==
    [status |-> "returned", success |-> success, error |-> error, errors |-> errors]

\* how tool.execute ends: a result with success true or false, or an exception
ExecOutcomes == {"success", "failure", "raise"}

\* Agent.act on action a.  answer is the user's reply if the approval gate
\* asks, outcome is how tool.execute ends if it is reached, bound caps the
\* approval history.  act has no handler of its own: an exception raised by
\* action.get (a non-dict action) or by tool.execute leaves act.
ActCall(a, answer, outcome, bound) ==
    LET tool_name  == a.tool_name
        parameters == a.parameters
        asks       == a.kind = "action" /\ is_destructive(tool_name) /\ ~auto_approve
        approval   == request_approval(approval_history, confidence_threshold, now,
                                       auto_approve, tool_name, parameters, answer)
        cancelled  == asks /\ ~approval.returned
        known      == tool_name \in Registry
        fixed      == _fix_parameter_structure(tool_name, parameters)
        validation == validate_parameters(tool_name, Flat(fixed))
        executes   == a.kind = "action" /\ ~cancelled /\ known /\ validation.valid
        raises     == a.kind # "action" \/ (executes /\ outcome = "raise")
    IN  /\ IF asks
           THEN RequestApproval(tool_name, parameters, answer, bound)
           ELSE UNCHANGED <<storeVars, approval_history, last_approval>>
        /\ result' =
              IF raises THEN NoResult
              ELSE IF cancelled
                   THEN Returned(FALSE, "Operation cancelled by user", << >>)
              ELSE IF ~known
                   THEN Returned(FALSE, "Tool not found", << >>)
              ELSE IF ~validation.valid
                   THEN Returned(FALSE, "Invalid parameters", validation.errors)
              ELSE IF outcome = "success" THEN Returned(TRUE, "", << >>)
              ELSE Returned(FALSE, "Tool failed", << >>)
        /\ act_trace' =
              [called |-> TRUE, auto |-> auto_approve, asked |-> asks,
               approved |-> asks /\ approval.returned,
               executed |-> executes, raised |-> raises]

\* names an action's parameters are built from
ParamNames(tool) ==
    CASE tool = "delete_file" -> {"file_path"}
      [] tool = "git_merge"   -> {"branch_name"}
      [] tool = "git_branch"  -> {"branch_name"}
      [] OTHER -> Range(required_params(tool)) \cup DOMAIN optional_params(tool)

ActValues == {Plain("a")}

\* every parameters dict over the names: flat, wrapped under "required",
\* under "optional", under both, with or without entries beside the wrappers
ParameterShapes(names) ==
    LET D == Dicts(names, ActValues)
    IN  {Parameters(top, hasReq, IF hasReq THEN req ELSE EmptyDict,
                    hasOpt, IF hasOpt THEN opt ELSE EmptyDict) :
            top \in D, hasReq \in BOOLEAN, req \in D, hasOpt \in BOOLEAN, opt \in D}

\* tool names act is called with: registered ones of each schema shape and
\* names that are not registered (git_branch has a class but is not registered)
ActTools ==
    {"read_file", "write_file", "list_directory", "run_command", "build_project",
     "analyze_dependencies", "show_preferences",
     "delete_file", "git_merge", "git_branch"}

NoToolAction == ActionOf("None", Flat(EmptyDict))

ActActions ==
    UNION {{ActionOf(tool, parameters) : parameters \in ParameterShapes(ParamNames(tool))} :
             tool \in ActTools}
    \cup {NoToolAction, NonDictAction}


\* act called with any action (the backend decides its content)
ActStep ==
    /\ ~act_trace.called
    /\ \E a \in ActActions, answer \in BOOLEAN, outcome \in ExecOutcomes :
        /\ ActCall(a, answer, outcome, MaxAsked)
        /\ action' = a
    /\ UNCHANGED <<storeVars, confidence_threshold, now, auto_approve, runVars, llmVars>>

\* the caller is done with the result of act
ActReturn ==
    /\ act_trace.called
    /\ action' = NoAction
    /\ result' = NoResult
    /\ act_trace' = NoActTrace
    /\ last_approval' = NoApproval
    /\ UNCHANGED <<storeVars, approval_history, confidence_threshold, now, auto_approve,
                   runVars, llmVars>>

\* working_memory.set_user_preference("auto_approve", value)
SetAutoApprove ==
    \E value \in BOOLEAN :
        /\ auto_approve' = value
        /\ UNCHANGED <<storeVars, safetyVars, action, result, act_trace, runVars, llmVars>>

----------------------------------------------------------------------------
(* Reasoning backend calls *)

\* texts a provider may hand back
TextTools == {"read_file", "write_file", "delete_file", "frobnicate"}

BackendTexts ==
    UNION {{JsonAction(tool, Flat(d)) : d \in {EmptyDict, [n \in {"file_path"} |-> Plain("a")]}} :
             tool \in TextTools}
    \cup {JsonOther, JsonNonDict, Garbage}

ProviderOutcomes == [Providers -> BOOLEAN]

\* LLMIntegration.generate_structured_response called with a user message
GenerateStructuredCall ==
    /\ llm_trace.called = "none"
    /\ \E ok \in ProviderOutcomes, text \in BackendTexts, input \in UserInputs :
        LET g == generate_structured_response(provider, openai_api_key, groq_api_key,
                                              ok, text, UserMessage(input))
        IN  /\ attempts' = g.attempts
            /\ llm_trace' = [called |-> "structured", winner |-> g.winner,
                             path |-> "none", response |-> g.response]
            /\ UNCHANGED <<storeVars, provider, openai_api_key, groq_api_key,
                           safetyVars, actVars, runVars>>

\* LLMIntegration.generate_response called with a user message
GenerateCall ==
    /\ llm_trace.called = "none"
    /\ \E ok \in ProviderOutcomes, text \in BackendTexts, input \in UserInputs :
        LET g == generate_response(provider, openai_api_key, groq_api_key,
                                   ok, text, UserMessage(input))
        IN  /\ attempts' = g.attempts
            /\ llm_trace' = [called |-> "plain", winner |-> g.winner,
                             path |-> "none", response |-> Envelope(g.response)]
            /\ UNCHANGED <<storeVars, provider, openai_api_key, groq_api_key,
                           safetyVars, actVars, runVars>>

\* Agent.reason on input text: the backend call, then parsing and validation
Reason(text) ==
    \E ok \in ProviderOutcomes, backend_text \in BackendTexts :
        LET r == reason(text, provider, openai_api_key, groq_api_key, ok, backend_text)
        IN  /\ action' = r.action
            /\ attempts' = r.attempts
            /\ llm_trace' = [called |-> "reason", winner |-> r.winner,
                             path |-> r.path, response |-> r.response]

ReasonCall ==
    /\ llm_trace.called = "none"
    /\ \E text \in UserInputs :
        /\ Reason(text)
        /\ user_input' = text
    /\ UNCHANGED <<storeVars, provider, openai_api_key, groq_api_key, safetyVars,
                   auto_approve, result, act_trace,
                   pc, steps, session_active, end_session_calls, cycle_trace>>

\* the caller is done with the response
ResponseUsed ==
    /\ llm_trace.called # "none"
    /\ llm_trace' = NoLLM
    /\ attempts' = << >>
    /\ action' = NoAction
    /\ user_input' = ""
    /\ UNCHANGED <<storeVars, provider, openai_api_key, groq_api_key, safetyVars,
                   auto_approve, result, act_trace,
                   pc, steps, session_active, end_session_calls, cycle_trace>>

----------------------------------------------------------------------------
(* Agent.run *)

\* inputs that go through the cycle in run
RunInputs == {"list files", "read a.txt", "hello"}

\* inputs with a multi-step keyword
MultiStepInputs == {"read a.txt then hello", "list files next"}

\* A text as the string functions see it: a sequence of words with "_" for
\* each space between, before or after them.  A word is a run of characters
\* without a space and without a keyword inside.
Tokens(text) ==
    CASE text = "read a.txt then hello" -> <<"read a.txt", "_", "then", "_", "hello">>
      [] text = "list files next"       -> <<"list files", "_", "next">>
      [] OTHER                          -> <<text>>

RECURSIVE Join(_)
\* the string of a text
Join(task) ==
    IF task = <<>> THEN ""
    ELSE (IF Head(task) = "_" THEN " " ELSE Head(task)) \o Join(Tail(task))

\* str.lower() on a word
LowerWord(word) ==
    CASE word = "Read B.txt" -> "read b.txt"
      [] OTHER               -> word

\* str.lower()
Lower(task) == [i \in DOMAIN task |-> LowerWord(task[i])]

\* delimiter in task
Contains(task, part) ==
    \E i \in 1..(Len(task) - Len(part) + 1) : SubSeq(task, i, i + Len(part) - 1) = part

RECURSIVE split(_, _)
\* str.split(delimiter): the parts between the occurrences, left to right
split(task, delimiter) ==
    IF Contains(task, delimiter)
    THEN LET i == CHOOSE j \in 1..(Len(task) - Len(delimiter) + 1) :
                      /\ SubSeq(task, j, j + Len(delimiter) - 1) = delimiter
                      /\ \A k \in 1..(j - 1) : SubSeq(task, k, k + Len(delimiter) - 1) # delimiter
         IN  <<SubSeq(task, 1, i - 1)>>
                 \o split(SubSeq(task, i + Len(delimiter), Len(task)), delimiter)
    ELSE <<task>>

RECURSIVE strip(_)
\* str.strip(): without the spaces at both ends
strip(task) ==
    IF task = <<>> THEN task
    ELSE IF Head(task) = "_" THEN strip(Tail(task))
    ELSE IF task[Len(task)] = "_" THEN strip(SubSeq(task, 1, Len(task) - 1))
    ELSE task

multi_step_keywords ==
    <<(<<"and", "_", "then">>), (<<"after", "_", "that">>), (<<"followed", "_", "by">>),
      (<<"then">>), (<<"next">>)>>

\* _is_multi_step_task: a keyword occurs in the lowercased input
_is_multi_step_task(task) ==
    \E n \in DOMAIN multi_step_keywords : Contains(Lower(task), multi_step_keywords[n])

delimiters ==
    <<(<<"_", "and", "_", "then", "_">>), (<<"_", "after", "_", "that", "_">>),
      (<<"_", "followed", "_", "by", "_">>), (<<"_", "then", "_">>), (<<"_", "next", "_">>)>>

\* the non-empty stripped parts of the lowercased task around delimiter
StrippedParts(task, delimiter) ==
    LET parts == split(Lower(task), delimiter)
    IN  SelectSeq([i \in DOMAIN parts |-> strip(parts[i])], LAMBDA part : part # <<>>)

\* _split_task_into_steps: the stripped parts around the first delimiter of
\* the list that occurs in the lowercased task; the task itself when that
\* leaves no step
_split_task_into_steps(task) ==
    LET found == {n \in DOMAIN delimiters : Contains(Lower(task), delimiters[n])}
        steps_found ==
            IF found = {} THEN <<>>
            ELSE StrippedParts(task, delimiters[CHOOSE n \in found : \A m \in found : n <= m])
    IN  IF steps_found = <<>> THEN <<task>> ELSE steps_found

\* the steps of an input of the loop as strings
StepTexts(text) ==
    LET parts == _split_task_into_steps(Tokens(text))
    IN  [i \in DOMAIN parts |-> Join(parts[i])]

LoopPhases == {"read_input", "perceive", "reason", "act", "learn", "display"}

\* get_user_input returns an ordinary input: a new cycle starts
ReadInput ==
    /\ pc = "read_input"
    /\ \E text \in RunInputs \cup MultiStepInputs : user_input' = text
    /\ steps' = << >>
    /\ pc' = "perceive"
    /\ cycle_trace' = NoCycle
    /\ action' = NoAction
    /\ result' = NoResult
    /\ act_trace' = NoActTrace
    /\ attempts' = << >>
    /\ llm_trace' = NoLLM
    /\ UNCHANGED <<storeVars, safetyVars, auto_approve, session_active, end_session_calls,
                   provider, openai_api_key, groq_api_key>>

\* the input is "exit" or "quit": break
Exit ==
    /\ pc = "read_input"
    /\ pc' = "end_session"
    /\ cycle_trace' = [NoCycle EXCEPT !.ended_by = "exit"]
    /\ UNCHANGED <<storeVars, safetyVars, actVars, user_input, steps, session_active,
                   end_session_calls, llmVars>>

\* _handle_special_commands: "set preference auto_approve <value>" stores the
\* preference and the loop continues ("show preferences" and "show learning"
\* only display)
SpecialCommand ==
    /\ pc = "read_input"
    /\ \E value \in BOOLEAN : auto_approve' = value
    /\ UNCHANGED <<storeVars, safetyVars, action, result, act_trace, runVars, llmVars>>

\* a phase raises an exception (get_user_input at end of input, the store in
\* perceive, reason or learn, the display of a result)
PhaseRaises ==
    /\ pc \in LoopPhases \ {"act"}
    /\ pc' = "handle_exception"
    /\ cycle_trace' = [cycle_trace EXCEPT !.raised = pc]
    /\ UNCHANGED <<storeVars, safetyVars, actVars, user_input, steps, session_active,
                   end_session_calls, llmVars>>

\* a call of the persistent store fails (sqlite3.Error) in reason, which
\* looks every tool up with get_tool_effectiveness before its try block, or
\* in learn, which records the interaction: no handler is between the call
\* and run's "except Exception"
StoreRaises ==
    /\ pc \in {"reason", "learn"}
    /\ pc' = "handle_exception"
    /\ cycle_trace' = [cycle_trace EXCEPT !.raised = pc, !.store_failed = TRUE]
    /\ UNCHANGED <<storeVars, safetyVars, actVars, user_input, steps, session_active,
                   end_session_calls, llmVars>>

\* KeyboardInterrupt during the cycle: break
Interrupt ==
    /\ pc \in LoopPhases
    /\ pc' = "end_session"
    /\ cycle_trace' = [cycle_trace EXCEPT !.ended_by = "interrupt"]
    /\ UNCHANGED <<storeVars, safetyVars, actVars, user_input, steps, session_active,
                   end_session_calls, llmVars>>

\* perceive, then the choice between _handle_multi_step_task (which goes
\* through reason, act and learn for each step) and the single-step cycle
Perceive ==
    /\ pc = "perceive"
    /\ pc' = "reason"
    /\ IF _is_multi_step_task(Tokens(user_input))
       THEN /\ user_input' = Head(StepTexts(user_input))
            /\ steps' = Tail(StepTexts(user_input))
       ELSE UNCHANGED <<storeVars, user_input, steps>>
    /\ UNCHANGED <<storeVars, safetyVars, actVars, session_active,
                   end_session_calls, cycle_trace, llmVars>>

ReasonPhase ==
    /\ pc = "reason"
    /\ Reason(user_input)
    /\ pc' = "act"
    /\ UNCHANGED <<storeVars, provider, openai_api_key, groq_api_key, safetyVars,
                   auto_approve, result, act_trace,
                   user_input, steps, session_active, end_session_calls, cycle_trace>>

\* result = self.act(action); an exception leaving act reaches run's handler
ActPhase ==
    /\ pc = "act"
    /\ \E answer \in BOOLEAN, outcome \in ExecOutcomes :
           ActCall(action, answer, outcome, MaxAsked)
    /\ pc' = IF act_trace'.raised THEN "handle_exception" ELSE "learn"
    /\ cycle_trace' = IF act_trace'.raised
                      THEN [cycle_trace EXCEPT !.raised = "act"] ELSE cycle_trace
    /\ UNCHANGED <<storeVars, confidence_threshold, now, auto_approve, action,
                   user_input, steps, session_active, end_session_calls, llmVars>>

\* _is_significant_operation
_is_significant_operation(a) ==
    is_destructive(a.tool_name) \/ a.tool_name \in {"write_file", "delete_file"}

\* Agent.learn: records the interaction and, for a significant operation,
\* asks for feedback; "good" / "bad" on a destructive tool sets auto_approve
LearnPhase ==
    /\ pc = "learn"
    /\ \E feedback \in {"good", "bad", "skip"} :
         auto_approve' =
            IF _is_significant_operation(action) /\ is_destructive(action.tool_name)
               /\ feedback # "skip"
            THEN feedback = "good"
            ELSE auto_approve
    /\ pc' = "display"
    /\ cycle_trace' = [cycle_trace EXCEPT !.learned = TRUE]
    /\ UNCHANGED <<storeVars, safetyVars, action, result, act_trace, user_input, steps,
                   session_active, end_session_calls, llmVars>>

\* the result is displayed; a multi-step task goes on with its next step
\* when the step succeeded or the user answers yes, and ends otherwise
DisplayPhase ==
    /\ pc = "display"
    /\ \E continue \in BOOLEAN :
          IF steps # << >> /\ (result.success \/ continue)
          THEN /\ pc' = "reason"
               /\ user_input' = Head(steps)
               /\ steps' = Tail(steps)
               /\ action' = NoAction
               /\ result' = NoResult
               /\ act_trace' = NoActTrace
               /\ attempts' = << >>
               /\ llm_trace' = NoLLM
               /\ cycle_trace' = NoCycle
          ELSE /\ pc' = "read_input"
               /\ steps' = << >>
               /\ UNCHANGED <<storeVars, user_input, action, result, act_trace,
                              attempts, llm_trace, cycle_trace>>
    /\ UNCHANGED <<storeVars, safetyVars, auto_approve, session_active, end_session_calls,
                   provider, openai_api_key, groq_api_key>>

\* a handler that leaves the loop
HandleException_break ==
    /\ pc = "handle_exception"
    /\ pc' = "end_session"
    /\ UNCHANGED <<storeVars, safetyVars, actVars, user_input, steps, session_active,
                   end_session_calls, cycle_trace, llmVars>>

\* except Exception: display the error and go round the loop again
HandleException ==
    /\ pc = "handle_exception"
    /\ pc' = "read_input"
    /\ UNCHANGED <<storeVars, safetyVars, actVars, user_input, steps, session_active,
                   end_session_calls, cycle_trace, llmVars>>

\* after the loop: working_memory.end_session()
EndSession ==
    /\ pc = "end_session"
    /\ session_active' = FALSE
    /\ end_session_calls' = end_session_calls + 1
    /\ pc' = "done"
    /\ UNCHANGED <<storeVars, safetyVars, actVars, user_input, steps, cycle_trace, llmVars>>

----------------------------------------------------------------------------
(* PersistentMemory: preferences *)

\* The tables of the store are followed in the specifications of the store
\* (SpecPrefs, SpecTools, SpecCleanup, SpecThreads).  The run loop reads them
\* only when the agent is constructed (auto_approve) and for the prompt, so
\* Spec follows the session's auto_approve and leaves the tables as they were
\* loaded.

\* JSON values the program stores as preferences
Str(v)   == [kind |-> "str",  v |-> v]
Bool(b)  == [kind |-> "bool", v |-> IF b THEN "true" ELSE "false"]
Null     == [kind |-> "null", v |-> "null"]
Dict(v)  == [kind |-> "dict", v |-> v]

\* json.dumps: a string is written between quotes, anything else as its literal
json_dumps(value) ==
    IF value.kind = "str"
    THEN [quoted |-> TRUE,  body |-> value.v]
    ELSE [quoted |-> FALSE, body |-> value.v]

DecodeError == [kind |-> "error", v |-> ""]

\* json.loads
json_loads(text) ==
    IF text.quoted THEN Str(text.body)
    ELSE IF text.body \in {"true", "false"} THEN [kind |-> "bool", v |-> text.body]
    ELSE IF text.body = "null" THEN Null
    ELSE IF text.body = "" THEN DecodeError
    ELSE Dict(text.body)

NoRows == [k \in {} |-> 0]

\* one more entry in a table
Upsert(table, key, row) ==
    [k \in DOMAIN table \cup {key} |-> IF k = key THEN row ELSE table[k]]

\* store_preference that keeps a row already there (INSERT OR IGNORE)
store_preference_ignore(prefs, key, value, confidence) ==
    IF key \in DOMAIN prefs THEN prefs
    ELSE Upsert(prefs, key,
                [value |-> json_dumps(value), confidence |-> confidence, usage_count |-> 1])

\* store_preference: INSERT OR REPLACE, usage_count is the old one plus 1
store_preference(prefs, key, value, confidence) ==
    Upsert(prefs, key,
           [value |-> json_dumps(value), confidence |-> confidence,
            usage_count |-> (IF key \in DOMAIN prefs THEN prefs[key].usage_count ELSE 0) + 1])

\* get_preference: the decoded value and confidence of the row, the default
\* with confidence 0 when there is no row or the value does not decode
get_preference(prefs, key, default_value) ==
    IF key \in DOMAIN prefs
    THEN IF json_loads(prefs[key].value) = DecodeError
         THEN [value |-> default_value, confidence |-> 0]
         ELSE [value |-> json_loads(prefs[key].value), confidence |-> prefs[key].confidence]
    ELSE [value |-> default_value, confidence |-> 0]

FeedbackStep == 1

\* min(1.0, confidence + 0.1) of a feedback without the clamp
Reinforce_unclamped(confidence) == confidence + FeedbackStep

\* Agent._request_feedback: new_confidence = min(1.0, confidence + 0.1)
Reinforce(confidence) == Min(10, confidence + FeedbackStep)

FeedbackConfidence == 8

\* LearningSystem.learn_from_feedback: the preference entry keyed by tool name
learn_from_feedback(prefs, tool_name, feedback) ==
    IF feedback = "good"
    THEN store_preference(prefs, "positive_feedback_" \o tool_name,
                          Dict("pattern"), FeedbackConfidence)
    ELSE IF feedback = "bad"
    THEN store_preference(prefs, "negative_feedback_" \o tool_name,
                          Dict("pattern"), FeedbackConfidence)
    ELSE prefs

\* Agent._request_feedback: the preferences in the store afterwards; a
\* response other than "good" and "bad" stores nothing
_request_feedback(prefs, tool_name, response) ==
    LET learned == learn_from_feedback(prefs, tool_name, response)
        current == get_preference(learned, "auto_approve", Bool(FALSE))
    IN  IF response \notin {"good", "bad"} THEN prefs
        ELSE IF is_destructive(tool_name)
        THEN store_preference(learned, "auto_approve", Bool(response = "good"),
                              Reinforce(current.confidence))
        ELSE learned

\* arguments of the preference calls
PrefKeys        == {"auto_approve", "verbosity"}
PrefValues      == {Bool(TRUE), Str("true"), Null}
PrefConfidences == {5, 10}
PrefDefaults    == {Bool(FALSE), Str("normal")}
FeedbackTools   == {"write_file"}
FeedbackResponses == {"good", "bad", "skip"}

NoCompleted ==
    [stores |-> NoRows, last |-> NoRows, uses |-> NoRows, cycles |-> NoRows, clock |-> 0, rows |-> 0]

NoMemTrace == [op |-> "none", flip |-> FALSE]

NoPure == [op |-> "none"]

NoUse == [success_count |-> 0, failure_count |-> 0]

\* threading.Lock() unlocked; thread 0 is the loop's thread, 1..MaxLearners
\* are the threads started by _trigger_async_learning
NoThread == 0 - 1

Threads == 0..MaxLearners

NoCall == [pc |-> "idle", op |-> "none", success |-> TRUE, local |-> NoUse,
           failed |-> FALSE, observed |-> FALSE]

\* the loop's thread is running, no learning thread has been started
InitThreads == [t \in Threads |-> IF t = 0 THEN NoCall ELSE [NoCall EXCEPT !.pc = "unstarted"]]

\* the preferences earlier sessions left in the store: none, or auto_approve
\* after one feedback "good"
EarlierPreferences ==
    {NoRows, store_preference(NoRows, "auto_approve", Bool(TRUE), Reinforce(0))}

\* Agent._load_learned_preferences: auto_approve of the session
LoadedAutoApprove(prefs) ==
    get_preference(prefs, "auto_approve", Bool(FALSE)).value = Bool(TRUE)

\* the tables other than interaction_history when the agent is constructed
TablesInit ==
    /\ user_preferences \in EarlierPreferences
    /\ auto_approve = LoadedAutoApprove(user_preferences)
    /\ tool_effectiveness = NoRows
    /\ completed = [NoCompleted EXCEPT
                       !.stores = [k \in DOMAIN user_preferences |->
                                       user_preferences[k].usage_count],
                       !.last = [k \in DOMAIN user_preferences |->
                                     get_preference(user_preferences, k, Null)]]
    /\ mem_trace = NoMemTrace
    /\ lock = NoThread
    /\ threads = InitThreads
    /\ pure_trace = NoPure

(* LearningSystem._trigger_async_learning: the learn thread *)

MaxInsights == 1
MaxInsightRows == 3

\* self.insight_generators, in the order the dict is iterated
insight_generators ==
    <<"tool_effectiveness", "user_patterns", "project_structure", "error_patterns">>

InsightTypes == Range(insight_generators)

NoInsights == [g \in InsightTypes |-> 0]

NoWM == [op |-> "none"]

RECURSIVE Sum(_, _)
Sum(f, S) == IF S = {} THEN 0
             ELSE LET x == CHOOSE y \in S : TRUE IN f[x] + Sum(f, S \ {x})

\* thread.start(): learn begins with the first generator; yields is the
\* number of insights each generator returns for this interaction
TriggerAsyncLearning ==
    \E yields \in [InsightTypes -> 0..MaxInsights] :
        /\ wm_trace.op = "none"
        /\ Sum(insights, InsightTypes) + Sum(yields, InsightTypes) <= MaxInsightRows
        /\ wm_trace' = [op |-> "learn", at |-> 1, yields |-> yields,
                        stored |-> NoInsights, failed |-> "", done |-> FALSE]
        /\ UNCHANGED <<safetyVars, actVars, runVars, llmVars, memVars, threadVars,
                       pure_trace, sessions, current_session_id, insights>>

\* a thread inside the for loop of learn
Learning == wm_trace.op = "learn" /\ ~wm_trace.done

\* persistent_memory.store_learning_insight for the next insight of the
\* current generator
StoreLearningInsight ==
    /\ Learning
    /\ LET g == insight_generators[wm_trace.at]
       IN  /\ wm_trace.stored[g] < wm_trace.yields[g]
           /\ insights' = [insights EXCEPT ![g] = @ + 1]
           /\ wm_trace' = [wm_trace EXCEPT !.stored[g] = @ + 1]
    /\ UNCHANGED <<safetyVars, actVars, runVars, llmVars, memVars, threadVars,
                   pure_trace, sessions, current_session_id>>

\* the insights of the current generator are stored: the loop goes on with
\* the next generator, and learn returns after the last
NextGenerator ==
    /\ Learning
    /\ wm_trace.stored[insight_generators[wm_trace.at]]
           = wm_trace.yields[insight_generators[wm_trace.at]]
    /\ wm_trace' = IF wm_trace.at = Len(insight_generators)
                   THEN [wm_trace EXCEPT !.done = TRUE]
                   ELSE [wm_trace EXCEPT !.at = @ + 1]
    /\ UNCHANGED <<safetyVars, actVars, runVars, llmVars, memVars, threadVars,
                   pure_trace, sessions, current_session_id, insights>>

\* the current generator, or the store of one of its insights, raises: the
\* except clause around the loop passes and learn returns
InsightRaises ==
    /\ Learning
    /\ wm_trace' = [wm_trace EXCEPT !.failed = insight_generators[wm_trace.at],
                                    !.done = TRUE]
    /\ UNCHANGED <<safetyVars, actVars, runVars, llmVars, memVars, threadVars,
                   pure_trace, sessions, current_session_id, insights>>

\* the thread has ended
LearnReturns ==
    /\ wm_trace.op = "learn"
    /\ wm_trace.done
    /\ wm_trace' = NoWM
    /\ UNCHANGED <<safetyVars, actVars, runVars, llmVars, memVars, threadVars,
                   pure_trace, sessions, current_session_id, insights>>

----------------------------------------------------------------------------
(* WorkingMemory: the sessions of one process *)

max_sessions == 10
MaxStarted == 12

NoSession == 0

\* a session as start_session creates it; an entry of the interaction log is
\* followed by its result's success
NewSession(session_id, time) ==
    [id |-> session_id, start_time |-> time, interactions |-> << >>]

SessionIds(ss) == {ss[i].id : i \in 1..Len(ss)}

\* uuid.uuid4(): an id no session has
FreshId(ss) == 1 + Len(ss) + Cardinality({n \in 1..MaxStarted :
                   n \notin SessionIds(ss) /\ \E m \in SessionIds(ss) : n < m})

RemoveAt(ss, i) == [j \in 1..(Len(ss) - 1) |-> IF j < i THEN ss[j] ELSE ss[j + 1]]

\* min(self.sessions.keys(), key=start_time) taking the last of the sessions
\* that share the smallest start time
oldest_session_last(ss) ==
    CHOOSE i \in 1..Len(ss) :
        /\ \A j \in 1..Len(ss) : ss[i].start_time <= ss[j].start_time
        /\ \A j \in (i + 1)..Len(ss) : ss[j].start_time # ss[i].start_time

\* min(self.sessions.keys(), key=start_time): the first key, in insertion
\* order, of the sessions with the smallest start time
oldest_session(ss) ==
    CHOOSE i \in 1..Len(ss) :
        /\ \A j \in 1..Len(ss) : ss[i].start_time <= ss[j].start_time
        /\ \A j \in 1..(i - 1) : ss[j].start_time # ss[i].start_time

\* WorkingMemory.start_session with a fresh uuid and the clock's time
start_session(ss, session_id, time) ==
    LET added == Append(ss, NewSession(session_id, time))
    IN  IF Len(added) > max_sessions
        THEN RemoveAt(added, oldest_session(added))
        ELSE added

\* WorkingMemory.__init__
WMNew ==
    /\ sessions = << >>
    /\ current_session_id = NoSession
    /\ insights = NoInsights
    /\ wm_trace = NoWM

\* Agent.session_id: the session Agent.__init__ starts
AgentSession == NewSession(1, 0)

\* the working memory once Agent.__init__ has started the session
WMInit ==
    /\ sessions = <<AgentSession>>
    /\ current_session_id = AgentSession.id
    /\ insights = NoInsights
    /\ wm_trace = NoWM

\* working_memory.start_session()
StartSessionCall ==
    \E session_id \in 1..MaxStarted :
        /\ session_id = FreshId(sessions)
        /\ sessions' = start_session(sessions, session_id, now)
        /\ current_session_id' = session_id
        /\ wm_trace' = [op |-> "start_session", id |-> session_id,
                        evicted |-> SessionIds(Append(sessions, NewSession(session_id, now)))
                                        \ SessionIds(sessions')]
        /\ UNCHANGED <<safetyVars, actVars, runVars, llmVars, memVars, threadVars,
                       pure_trace, insights>>

\* working_memory.end_session()
EndSessionCall ==
    /\ wm_trace' = [op |-> "end_session", returned |-> current_session_id]
    /\ current_session_id' = NoSession
    /\ UNCHANGED <<safetyVars, actVars, runVars, llmVars, memVars, threadVars,
                   pure_trace, sessions, insights>>

\* the store when the agent is constructed: the preferences of earlier
\* sessions, no call of this session completed, no thread in the store
MemInit ==
    /\ db_path = "agent_memory.db"
    /\ store_open = TRUE
    /\ interaction_history = {}
    /\ TablesInit
    /\ WMInit

Count(table, key) == IF key \in DOMAIN table THEN table[key] ELSE 0

\* persistent_memory.store_preference(key, value, confidence)
StorePreference ==
    \E key \in PrefKeys, value \in PrefValues, confidence \in PrefConfidences :
        /\ Count(completed.stores, key) < MaxStores
        /\ user_preferences' = store_preference(user_preferences, key, value, confidence)
        /\ completed' = [completed EXCEPT
                           !.stores = Upsert(@, key, Count(@, key) + 1),
                           !.last = Upsert(@, key, [value |-> value, confidence |-> confidence])]
        /\ mem_trace' = [op |-> "store_preference", flip |-> ~mem_trace.flip, key |-> key]
        /\ UNCHANGED <<safetyVars, actVars, runVars, llmVars, db_path,
                       store_open, tool_effectiveness, interaction_history,
                       threadVars, pure_trace, wmVars>>

\* persistent_memory.get_preference(key, default_value)
GetPreference ==
    \E key \in PrefKeys, default_value \in PrefDefaults :
        /\ mem_trace' = [op |-> "get_preference", flip |-> ~mem_trace.flip, key |-> key,
                         default_value |-> default_value,
                         returned |-> get_preference(user_preferences, key, default_value)]
        /\ UNCHANGED <<safetyVars, actVars, runVars, llmVars, db_path,
                       store_open, user_preferences, tool_effectiveness,
                       interaction_history, completed, threadVars, pure_trace, wmVars>>

\* Agent._request_feedback after a significant operation with tool_name: the
\* user answers good, bad or skip, the preferences are stored and the session's
\* auto_approve is set
Feedback ==
    \E tool_name \in FeedbackTools, response \in FeedbackResponses :
        LET after == _request_feedback(user_preferences, tool_name, response)
            answered == response \in {"good", "bad"}
        IN  /\ answered => after["auto_approve"].usage_count <= MaxStores
            /\ user_preferences' = after
            /\ auto_approve' = IF answered /\ is_destructive(tool_name)
                               THEN response = "good"
                               ELSE auto_approve
            /\ completed' =
                   LET fkey == (IF response = "good" THEN "positive_feedback_"
                                ELSE "negative_feedback_") \o tool_name
                       learned == [completed EXCEPT
                                     !.stores = Upsert(@, fkey, Count(@, fkey) + 1),
                                     !.last = Upsert(@, fkey,
                                                     [value |-> Dict("pattern"),
                                                      confidence |-> FeedbackConfidence])]
                   IN  IF ~answered THEN completed
                       ELSE [learned EXCEPT
                          !.stores = Upsert(@, "auto_approve", Count(@, "auto_approve") + 1),
                          !.last = Upsert(@, "auto_approve",
                                          [value |-> Bool(response = "good"),
                                           confidence |-> after["auto_approve"].confidence])]
            /\ mem_trace' = [op |-> "feedback", flip |-> ~mem_trace.flip,
                             key |-> "auto_approve", response |-> response]
            /\ UNCHANGED <<safetyVars, action, result, act_trace, runVars, llmVars,
                           db_path, store_open, tool_effectiveness,
                           interaction_history, threadVars, pure_trace, wmVars>>

----------------------------------------------------------------------------
(* PersistentMemory: context fingerprint *)

\* A context is a Python dict: a sequence of items in insertion order, no key
\* twice.  A value is a scalar or, for git_status, a dict of its own.
Scalar(v)     == [kind |-> "scalar", v |-> v, items |-> <<>>]
Nested(items) == [kind |-> "dict", v |-> "", items |-> items]
Item(key, value) == [key |-> key, value |-> value]

\* the keys of the contexts, in the order of Python's string comparison
SortedKeys ==
    <<"current_directory", "git_status", "is_dirty", "is_git_repo",
      "session_id", "timestamp", "user_input">>

HasItem(context, key) == \E i \in DOMAIN context : context[i].key = key

ValueOf(context, key) == context[CHOOSE i \in DOMAIN context : context[i].key = key].value

RECURSIVE dumps_unsorted(_)
\* json.dumps(context): the items as the dict holds them
dumps_unsorted(context) ==
    [n \in DOMAIN context |->
        IF context[n].value.kind = "dict"
        THEN Item(context[n].key, Nested(dumps_unsorted(context[n].value.items)))
        ELSE context[n]]

RECURSIVE dumps_sorted(_)
\* json.dumps(context, sort_keys=True): the items by key, at every level
dumps_sorted(context) ==
    LET keys == SelectSeq(SortedKeys, LAMBDA k : HasItem(context, k))
    IN  [n \in DOMAIN keys |->
            IF ValueOf(context, keys[n]).kind = "dict"
            THEN Item(keys[n], Nested(dumps_sorted(ValueOf(context, keys[n]).items)))
            ELSE Item(keys[n], ValueOf(context, keys[n]))]

\* hashlib.md5(...).hexdigest(): different texts get different digests
md5(text) == [md5 |-> text]

\* generate_context_hash
generate_context_hash(context) == md5(dumps_sorted(context))

----------------------------------------------------------------------------
(* PersistentMemory: tool effectiveness *)

\* record_tool_usage that writes a fresh row over the one already there
record_tool_usage_replace(table, tool_name, context_hash, success) ==
    Upsert(table, <<tool_name, context_hash>>,
           [success_count |-> IF success THEN 1 ELSE 0,
            failure_count |-> IF success THEN 0 ELSE 1])

\* record_tool_usage: the row of (tool_name, context_hash) with one more
\* success or failure, a new row with 1 and 0 (or 0 and 1) when there is none
record_tool_usage(table, tool_name, context_hash, success) ==
    LET key == <<tool_name, context_hash>>
    IN  IF key \in DOMAIN table
        THEN Upsert(table, key,
                    [success_count |-> table[key].success_count + (IF success THEN 1 ELSE 0),
                     failure_count |-> table[key].failure_count + (IF success THEN 0 ELSE 1)])
        ELSE Upsert(table, key,
                    [success_count |-> IF success THEN 1 ELSE 0,
                     failure_count |-> IF success THEN 0 ELSE 1])

\* a success rate as a fraction
Rate(num, den) == [num |-> num, den |-> den]

\* get_tool_effectiveness: success_count / total (0.5 when total is 0),
\* usage_count = total, confidence = min(1.0, total / 10) in tenths
get_tool_effectiveness(table, tool_name, context_hash) ==
    LET key == <<tool_name, context_hash>>
    IN  IF key \in DOMAIN table
        THEN LET total == table[key].success_count + table[key].failure_count
             IN  [success_rate |-> IF total > 0 THEN Rate(table[key].success_count, total)
                                   ELSE Rate(1, 2),
                  usage_count |-> total,
                  confidence |-> Min(10, total)]
        ELSE [success_rate |-> Rate(1, 2), usage_count |-> 0, confidence |-> 0]

\* Agent.perceive: the context of a cycle, in the order the keys are set
perceive(session_id, user_text, current_directory, is_dirty, timestamp) ==
    <<Item("session_id", Scalar(session_id)),
      Item("user_input", Scalar(user_text)),
      Item("current_directory", Scalar(current_directory)),
      Item("git_status", Nested(<<Item("is_git_repo", Scalar("true")),
                                  Item("is_dirty", Scalar(is_dirty))>>)),
      Item("timestamp", Scalar(timestamp))>>

\* arguments of the effectiveness calls
MemTools    == {"read_file", "write_file"}
Sessions    == {"s1"}
Directories == {"/p"}
Dirtiness   == {"true", "false"}
CycleInputs == {"read a.txt", "read b.txt"}
CycleTools  == {"read_file"}
CycleResults == {TRUE}

\* the fingerprints a caller passes directly
DirectHashes ==
    {generate_context_hash(<<Item("session_id", Scalar(s)),
                             Item("current_directory", Scalar("/p"))>>) : s \in Sessions}

Uses(table, key) == IF key \in DOMAIN table THEN table[key] ELSE NoUse

\* persistent_memory.record_tool_usage(tool_name, context_hash, success)
RecordToolUsage ==
    \E tool_name \in MemTools, context_hash \in DirectHashes, success \in BOOLEAN :
        LET key  == <<tool_name, context_hash>>
            done == Uses(completed.uses, key)
        IN  /\ done.success_count + done.failure_count < MaxUses
            /\ tool_effectiveness' =
                   record_tool_usage(tool_effectiveness, tool_name, context_hash, success)
            /\ completed' = [completed EXCEPT !.uses =
                   Upsert(@, key,
                          [success_count |-> done.success_count + (IF success THEN 1 ELSE 0),
                           failure_count |-> done.failure_count + (IF success THEN 0 ELSE 1)])]
            /\ mem_trace' = [op |-> "record_tool_usage", flip |-> mem_trace.flip]
            /\ UNCHANGED <<safetyVars, actVars, runVars, llmVars, db_path,
                           store_open, user_preferences, interaction_history,
                           threadVars, pure_trace, wmVars>>

\* persistent_memory.get_tool_effectiveness(tool_name, context_hash)
GetToolEffectiveness ==
    \E tool_name \in MemTools, context_hash \in DirectHashes :
        /\ mem_trace' = [op |-> "get_tool_effectiveness", flip |-> mem_trace.flip,
                         key |-> <<tool_name, context_hash>>,
                         returned |-> get_tool_effectiveness(tool_effectiveness,
                                                             tool_name, context_hash)]
        /\ UNCHANGED <<safetyVars, actVars, runVars, llmVars, db_path,
                       store_open, user_preferences, tool_effectiveness,
                       interaction_history, completed, threadVars, pure_trace, wmVars>>

\* One cycle of Agent.run as the store sees it: perceive builds the context,
\* reason looks the tool up under the fingerprint of that context, act runs
\* the tool, learn records the usage under the same fingerprint.  The clock
\* read by perceive is later in every cycle.
InteractionCycle ==
    \E session_id \in Sessions, user_text \in CycleInputs, current_directory \in Directories,
       is_dirty \in Dirtiness, tool_name \in CycleTools, success \in CycleResults :
        LET total        == completed.clock
            state        == perceive(session_id, user_text, current_directory, is_dirty, total + 1)
            context_hash == generate_context_hash(state)
            situation    == <<tool_name, session_id, current_directory, is_dirty>>
        IN  /\ total < MaxCycles
            /\ tool_effectiveness' =
                   record_tool_usage(tool_effectiveness, tool_name, context_hash, success)
            /\ completed' = [completed EXCEPT
                               !.cycles = Upsert(@, situation, Count(@, situation) + 1),
                               !.clock = @ + 1]
            /\ mem_trace' = [op |-> "cycle", flip |-> mem_trace.flip,
                             situation |-> situation,
                             context_hash |-> context_hash,
                             seen |-> get_tool_effectiveness(tool_effectiveness,
                                                             tool_name, context_hash),
                             recorded |-> get_tool_effectiveness(tool_effectiveness',
                                                                 tool_name, context_hash)]
            /\ UNCHANGED <<safetyVars, actVars, runVars, llmVars, db_path,
                           store_open, user_preferences, interaction_history,
                           threadVars, pure_trace, wmVars>>

----------------------------------------------------------------------------
(* Agent.learn as the two memory tiers see it *)

MaxLearned == 3

\* PersistentMemory.record_interaction: INSERT INTO interaction_history
record_interaction(history, session_id, success, time) ==
    history \cup {[id |-> Cardinality(history) + 1, session_id |-> session_id,
                   success |-> success, timestamp |-> time]}

\* WorkingMemory.add_interaction: starts a session when there is none, then
\* appends to the current session's log
add_interaction(ss, current, success, time) ==
    LET started == IF current = NoSession THEN start_session(ss, FreshId(ss), time) ELSE ss
        id      == IF current = NoSession THEN FreshId(ss) ELSE current
    IN  [i \in DOMAIN started |->
            IF started[i].id = id
            THEN [started[i] EXCEPT !.interactions = Append(@, success)]
            ELSE started[i]]

\* PersistentMemory.get_memory_stats: the count of interaction_history and the
\* success rate successful / total (0 when total is 0)
get_memory_stats(history) ==
    LET total      == Cardinality(history)
        successful == Cardinality({row \in history : row.success})
    IN  [interaction_history_count |-> total,
         interaction_success_rate |-> IF total > 0 THEN Rate(successful, total)
                                      ELSE Rate(0, 1)]

\* Agent.learn(state, action, result) for a read_file action (not a
\* significant operation, so no feedback is asked): record_interaction of the
\* learning system, which records the interaction and the tool usage in the
\* store and starts the learn thread, then add_interaction, then
\* record_interaction of the store
LearnCall ==
    \E success \in BOOLEAN, user_text \in CycleInputs :
        LET state        == perceive(AgentSession.id, user_text, "/p", "false", now)
            context_hash == generate_context_hash(state)
            by_learning  == record_interaction(interaction_history, AgentSession.id,
                                               success, now)
        IN  /\ Cardinality(interaction_history) < 2 * MaxLearned
            /\ interaction_history' =
                   record_interaction(by_learning, AgentSession.id, success, now)
            /\ tool_effectiveness' =
                   record_tool_usage(tool_effectiveness, "read_file", context_hash, success)
            /\ sessions' = add_interaction(sessions, current_session_id, success, now)
            /\ current_session_id' = IF current_session_id = NoSession
                                     THEN FreshId(sessions) ELSE current_session_id
            /\ wm_trace' = [op |-> "learn_call",
                            stats |-> get_memory_stats(interaction_history')]
            /\ UNCHANGED <<safetyVars, actVars, runVars, llmVars, db_path, store_open,
                           user_preferences, completed, mem_trace, threadVars,
                           pure_trace, insights>>

----------------------------------------------------------------------------
(* PersistentMemory: startup cleanup *)

RetentionDays == 30

Row(id, timestamp) == [id |-> id, timestamp |-> timestamp]

\* _cleanup_old_data with the comparison the other way round
_cleanup_old_data_younger(history, time) ==
    {row \in history : ~(row.timestamp > time - RetentionDays)}

\* _cleanup_old_data: DELETE FROM interaction_history WHERE timestamp < cutoff
\* (the pass over project_patterns touches no interaction row)
_cleanup_old_data(history, time) ==
    {row \in history : ~(row.timestamp < time - RetentionDays)}

DbPaths == {"agent_memory.db", ":memory:"}

\* the interaction rows earlier sessions left in the file, by age in days at
\* the time the model starts
EarlierRows ==
    {Row(1, 0 - RetentionDays - 1), Row(2, 0 - RetentionDays),
     Row(3, TickDays - RetentionDays), Row(4, 0 - 1)}

\* PersistentMemory.__init__(db_path): _initialize_db creates the file and
\* the tables, so for an on-disk path the file exists and _cleanup_old_data
\* is called; an exception of the pass is caught and reported
Startup ==
    /\ ~store_open
    /\ \E outcome \in {"ok", "error"} :
           LET called  == db_path # ":memory:"
               cleaned == called /\ outcome = "ok"
           IN  /\ interaction_history' =
                      IF cleaned THEN _cleanup_old_data(interaction_history, now)
                      ELSE interaction_history
               /\ mem_trace' = [op |-> "startup", flip |-> mem_trace.flip,
                                before |-> interaction_history, at |-> now,
                                called |-> called, cleaned |-> cleaned]
    /\ store_open' = TRUE
    /\ UNCHANGED <<safetyVars, actVars, runVars, llmVars, db_path, user_preferences,
                   tool_effectiveness, completed, threadVars, pure_trace, wmVars>>

\* the process ends: an in-memory store is gone, a file keeps its rows
Shutdown ==
    /\ store_open
    /\ store_open' = FALSE
    /\ interaction_history' = IF db_path = ":memory:" THEN {} ELSE interaction_history
    /\ mem_trace' = [op |-> "shutdown", flip |-> mem_trace.flip]
    /\ UNCHANGED <<safetyVars, actVars, runVars, llmVars, db_path, user_preferences,
                   tool_effectiveness, completed, threadVars, pure_trace, wmVars>>

\* persistent_memory.record_interaction: a row with timestamp time.time()
RecordInteraction ==
    /\ store_open
    /\ completed.rows < MaxRows
    /\ interaction_history' =
           interaction_history \cup {Row(Cardinality(EarlierRows) + completed.rows + 1, now)}
    /\ completed' = [completed EXCEPT !.rows = @ + 1]
    /\ mem_trace' = [op |-> "record_interaction", flip |-> mem_trace.flip]
    /\ UNCHANGED <<safetyVars, actVars, runVars, llmVars, db_path, store_open,
                   user_preferences, tool_effectiveness, threadVars, pure_trace, wmVars>>

----------------------------------------------------------------------------
(* PersistentMemory under threads *)

\* The store is one object used by the loop's thread and by the learning
\* threads; every operation runs inside "with self.lock".  Either kind of
\* thread may call any of the operations followed here.

\* threading.Lock that lets every thread in
LockFree_always(l) == TRUE

\* threading.Lock.acquire proceeds when the lock is not held
LockFree(l) == l = NoThread

\* "except Exception" that lets the failure out of the thread
except_raise(failure) == failure

\* "except Exception: pass" around the body of learn(): nothing of the failure
\* gets out of the thread
except_pass(failure) == FALSE

ThreadKey == <<"read_file", CHOOSE h \in DirectHashes : TRUE>>

ThreadPref == "verbosity"

RecordOps == {"record_tool_usage", "record_interaction"}

\* the operations a thread calls: the loop's thread also calls
\* LearningSystem.record_interaction, which records the tool usage and starts
\* a learning thread
OpsOf(t) ==
    {"record_tool_usage", "store_preference", "get_tool_effectiveness"}
        \cup (IF t = 0 THEN {"record_interaction"} ELSE {"store_learning_insight"})

InCall(t, ops) == threads[t].pc \notin {"idle", "unstarted", "finished"} /\ threads[t].op \in ops

\* calls of ops that have returned or are under way
Started(ops) ==
    Cardinality({t \in Threads : InCall(t, ops)})
        + (IF ops = RecordOps
           THEN Uses(completed.uses, ThreadKey).success_count
                    + Uses(completed.uses, ThreadKey).failure_count
           ELSE Count(completed.stores, ThreadPref))

\* a thread calls an operation of the store and reaches "with self.lock"
ThreadCall ==
    \E t \in Threads, op \in {"record_tool_usage", "store_preference", "get_tool_effectiveness",
                              "record_interaction", "store_learning_insight"},
       success \in BOOLEAN :
        /\ threads[t].pc = "idle"
        /\ op \in OpsOf(t)
        /\ op \in RecordOps => Started(RecordOps) < MaxUses
        /\ op \notin RecordOps => success
        /\ op = "store_preference" => Started({"store_preference"}) < MaxStores
        /\ op = "record_interaction" => \E l \in Threads : threads[l].pc = "unstarted"
        /\ threads' = [threads EXCEPT ![t] = [@ EXCEPT !.pc = "acquire", !.op = op,
                                                      !.success = success, !.local = NoUse]]
        /\ UNCHANGED <<safetyVars, actVars, runVars, llmVars, memVars, lock, pure_trace, wmVars>>

\* the thread gets the lock
Acquire ==
    \E t \in Threads :
        /\ threads[t].pc = "acquire"
        /\ LockFree(lock)
        /\ lock' = t
        /\ threads' = [threads EXCEPT ![t].pc = "locked"]
        /\ UNCHANGED <<safetyVars, actVars, runVars, llmVars, memVars, pure_trace, wmVars>>

\* the first statement inside the lock: record_tool_usage reads the row,
\* store_preference and store_learning_insight write theirs in one statement
\* and commit, get_tool_effectiveness reads
Execute ==
    \E t \in Threads :
        /\ threads[t].pc = "locked"
        /\ IF threads[t].op \in RecordOps
           THEN /\ threads' = [threads EXCEPT ![t] =
                       [@ EXCEPT !.pc = "write", !.local = Uses(tool_effectiveness, ThreadKey)]]
                /\ UNCHANGED user_preferences
           ELSE /\ threads' = [threads EXCEPT ![t].pc = "release"]
                /\ user_preferences' =
                       IF threads[t].op = "store_preference"
                       THEN store_preference(user_preferences, ThreadPref, Str("high"), 5)
                       ELSE user_preferences
        /\ UNCHANGED <<safetyVars, actVars, runVars, llmVars, db_path, store_open,
                       tool_effectiveness, interaction_history, completed, mem_trace,
                       lock, pure_trace, wmVars>>

\* record_tool_usage writes the counts it computed from the row it read
\* (UPDATE, or INSERT when it found none) and commits
Write ==
    \E t \in Threads :
        /\ threads[t].pc = "write"
        /\ tool_effectiveness' =
               Upsert(tool_effectiveness, ThreadKey,
                      [success_count |-> threads[t].local.success_count
                                             + (IF threads[t].success THEN 1 ELSE 0),
                       failure_count |-> threads[t].local.failure_count
                                             + (IF threads[t].success THEN 0 ELSE 1)])
        /\ threads' = [threads EXCEPT ![t].pc = "release"]
        /\ UNCHANGED <<safetyVars, actVars, runVars, llmVars, db_path, store_open,
                       user_preferences, interaction_history, completed, mem_trace,
                       lock, pure_trace, wmVars>>

\* the with statement ends and the call returns; record_interaction of the
\* learning system then starts a learning thread and returns
Release ==
    \E t \in Threads :
        /\ threads[t].pc = "release"
        /\ lock' = NoThread
        /\ completed' =
               IF threads[t].op \in RecordOps
               THEN [completed EXCEPT !.uses =
                        Upsert(@, ThreadKey,
                               [success_count |-> Uses(@, ThreadKey).success_count
                                                      + (IF threads[t].success THEN 1 ELSE 0),
                                failure_count |-> Uses(@, ThreadKey).failure_count
                                                      + (IF threads[t].success THEN 0 ELSE 1)])]
               ELSE IF threads[t].op = "store_preference"
               THEN [completed EXCEPT !.stores = Upsert(@, ThreadPref, Count(@, ThreadPref) + 1)]
               ELSE completed
        /\ threads' =
               IF threads[t].op = "record_interaction"
               THEN LET l == CHOOSE l \in Threads : threads[l].pc = "unstarted"
                    IN  [threads EXCEPT ![t].pc = "idle", ![l].pc = "idle"]
               ELSE [threads EXCEPT ![t].pc = "idle"]
        /\ UNCHANGED <<safetyVars, actVars, runVars, llmVars, db_path, store_open,
                       user_preferences, tool_effectiveness, interaction_history,
                       mem_trace, pure_trace, wmVars>>

\* an insight generator or a store call raises in a learning thread: the with
\* statement gives the lock back, the uncommitted statement is lost, and
\* learn() ends in its except clause
LearnFails ==
    \E t \in Threads \ {0} :
        /\ threads[t].pc \in {"idle", "acquire", "locked", "write"}
        /\ lock' = IF lock = t THEN NoThread ELSE lock
        /\ threads' = [threads EXCEPT
                          ![t] = [@ EXCEPT !.pc = "finished", !.failed = TRUE],
                          ![0] = [@ EXCEPT !.observed = @ \/ except_pass(TRUE)]]
        /\ UNCHANGED <<safetyVars, actVars, runVars, llmVars, memVars, pure_trace, wmVars>>

\* learn() has gone through the generators
LearnEnds ==
    \E t \in Threads \ {0} :
        /\ threads[t].pc = "idle"
        /\ threads' = [threads EXCEPT ![t].pc = "finished"]
        /\ UNCHANGED <<safetyVars, actVars, runVars, llmVars, memVars, lock, pure_trace, wmVars>>

----------------------------------------------------------------------------
(* Pure functions on bounded inputs *)

\* the contexts with the same items in every insertion order
Orderings(items) ==
    {[i \in DOMAIN items |-> items[p[i]]] : p \in Permutations(DOMAIN items)}

\* the items of a context, the first MaxKeys of them are used
ContextItems(session_id, git_status) ==
    <<Item("session_id", Scalar(session_id)),
      Item("git_status", Nested(git_status)),
      Item("current_directory", Scalar("/p")),
      Item("user_input", Scalar("read a.txt"))>>

Contexts ==
    UNION {Orderings(SubSeq(ContextItems(session_id, git_status), 1, MaxKeys)) :
               session_id \in Sessions,
               git_status \in UNION {Orderings(<<Item("is_git_repo", Scalar("true")),
                                                 Item("is_dirty", Scalar(is_dirty))>>) :
                                         is_dirty \in Dirtiness}}

\* generate_context_hash on two contexts, and on the first of them again
HashContexts ==
    \E a \in Contexts, b \in Contexts :
        /\ pure_trace.op = "none"
        /\ pure_trace' = [op |-> "generate_context_hash", a |-> a, b |-> b,
                          hash_a |-> generate_context_hash(a),
                          hash_b |-> generate_context_hash(b),
                          again |-> generate_context_hash(a)]
        /\ UNCHANGED <<safetyVars, actVars, runVars, llmVars, memVars, threadVars, wmVars>>

SplitWords == {"read a.txt", "Read B.txt", "and", "then", "next"}

RECURSIVE Spaced(_)
\* the words with one space between them
Spaced(words) ==
    IF Len(words) <= 1 THEN words
    ELSE <<Head(words), "_">> \o Spaced(Tail(words))

\* the inputs the loop hands to _split_task_into_steps: up to MaxWords words,
\* a keyword among them, with or without a space before and after
SplitTasks ==
    {task \in UNION {{lead \o Spaced(words) \o trail :
                          words \in [1..n -> SplitWords],
                          lead \in {<<>>, <<"_">>}, trail \in {<<>>, <<"_">>}} :
                     n \in 1..MaxWords} :
        _is_multi_step_task(task)}

\* _split_task_into_steps(task)
SplitTask ==
    \E task \in SplitTasks :
        /\ pure_trace.op = "none"
        /\ pure_trace' = [op |-> "split", task |-> task,
                          steps |-> _split_task_into_steps(task)]
        /\ UNCHANGED <<safetyVars, actVars, runVars, llmVars, memVars, threadVars, wmVars>>

\* tools and flat parameter dicts validate_parameters is applied to: each
\* name absent, plain, or wrapped as {default: v} or {value: v}
ValidateTools == {"list_directory", "build_project", "git_diff", "read_file"}

ValidateValues == {Plain("a"), DefaultEnv("a"), ValueEnv("a")}

\* tool.validate_parameters(parameters)
ValidateParameters ==
    \E tool \in ValidateTools :
        \E supplied \in Dicts(ParamNames(tool), ValidateValues) :
            /\ pure_trace.op = "none"
            /\ pure_trace' = [op |-> "validate_parameters", tool |-> tool,
                              supplied |-> supplied,
                              validation |-> validate_parameters(tool, Flat(supplied))]
            /\ UNCHANGED <<safetyVars, actVars, runVars, llmVars, memVars, threadVars, wmVars>>

\* the caller has the value of the call
PureReturn ==
    /\ pure_trace.op # "none"
    /\ pure_trace' = NoPure
    /\ UNCHANGED <<safetyVars, actVars, runVars, llmVars, memVars, threadVars, wmVars>>

----------------------------------------------------------------------------
(* Specifications *)

\* the run loop of one agent process
Init == SafetyInit /\ ActInit /\ RunInit /\ LLMInit /\ MemInit

Next ==
    \/ ReadInput
    \/ Exit
    \/ SpecialCommand
    \/ PhaseRaises
    \/ StoreRaises
    \/ Interrupt
    \/ Perceive
    \/ ReasonPhase
    \/ ActPhase
    \/ LearnPhase
    \/ DisplayPhase
    \/ HandleException
    \/ EndSession

Spec == Init /\ [][Next]_vars

\* no backend configured: the state of the LLM integration outside the
\* specifications that exercise it
LLMIdle ==
    /\ openai_api_key = FALSE
    /\ groq_api_key = FALSE
    /\ provider = "fallback"
    /\ attempts = << >>
    /\ llm_trace = NoLLM

\* sequences of act calls
InitAct == SafetyInit /\ ActInit /\ RunInit /\ LLMIdle /\ MemInit

NextAct == ActStep \/ ActReturn \/ SetAutoApprove

SpecAct == InitAct /\ [][NextAct]_vars

\* sequences of SafetyFramework calls
InitSafety == SafetyInit /\ ActInit /\ RunInit /\ LLMIdle /\ MemInit

NextSafety == RequestApprovalCall \/ SetConfidenceThreshold \/ Tick

SpecSafety == InitSafety /\ [][NextSafety]_vars

\* sequences of reasoning-backend calls
InitLLM == SafetyInit /\ ActInit /\ RunInit /\ LLMInit /\ MemInit

NextLLM == GenerateStructuredCall \/ GenerateCall \/ ReasonCall \/ ResponseUsed

SpecLLM == InitLLM /\ [][NextLLM]_vars

\* sequences of preference calls on the store
InitPrefs == SafetyInit /\ ActInit /\ RunInit /\ LLMIdle /\ MemInit

NextPrefs == StorePreference \/ GetPreference \/ Feedback

SpecPrefs == InitPrefs /\ [][NextPrefs]_vars

\* sequences of effectiveness calls and loop cycles on the store
InitTools == SafetyInit /\ ActInit /\ RunInit /\ LLMIdle /\ MemInit

NextTools == RecordToolUsage \/ GetToolEffectiveness \/ InteractionCycle

SpecTools == InitTools /\ [][NextTools]_vars

\* the store from one construction to the next: the path is on disk or
\* ":memory:", a file holds the rows of earlier sessions
InitCleanup ==
    /\ SafetyInit /\ ActInit /\ RunInit /\ LLMIdle /\ TablesInit /\ WMInit
    /\ db_path \in DbPaths
    /\ store_open = FALSE
    /\ interaction_history \in (IF db_path = ":memory:" THEN {{}} ELSE SUBSET EarlierRows)

NextCleanup == Startup \/ Shutdown \/ RecordInteraction \/ Tick

SpecCleanup == InitCleanup /\ [][NextCleanup]_vars

\* the store used by the loop's thread and the learning threads
InitThreaded ==
    SafetyInit /\ ActInit /\ RunInit /\ LLMIdle /\ MemInit /\ user_preferences = NoRows

NextThreads ==
    ThreadCall \/ Acquire \/ Execute \/ Write \/ Release \/ LearnFails \/ LearnEnds

SpecThreads == InitThreaded /\ [][NextThreads]_vars

\* the pure functions applied to inputs from bounded sets
InitPure == SafetyInit /\ ActInit /\ RunInit /\ LLMIdle /\ MemInit /\ user_preferences = NoRows

NextPure == HashContexts \/ SplitTask \/ ValidateParameters \/ PureReturn

SpecPure == InitPure /\ [][NextPure]_vars

\* sequences of session calls on a working memory
InitSessions ==
    /\ SafetyInit /\ ActInit /\ RunInit /\ LLMIdle /\ TablesInit /\ WMNew
    /\ db_path = "agent_memory.db"
    /\ store_open = TRUE
    /\ interaction_history = {}
    /\ user_preferences = NoRows

NextSessions == StartSessionCall \/ EndSessionCall \/ Tick

SpecSessions == InitSessions /\ [][NextSessions]_vars

\* the learn thread of one interaction after another
InitLearn == InitThreaded

NextLearn ==
    TriggerAsyncLearning \/ StoreLearningInsight \/ NextGenerator \/ InsightRaises
        \/ LearnReturns

SpecLearn == InitLearn /\ [][NextLearn]_vars

\* the learn calls of one agent, before and after the session is ended
InitCycles == InitThreaded

NextCycles == LearnCall \/ EndSessionCall \/ Tick

SpecCycles == InitCycles /\ [][NextCycles]_vars

----------------------------------------------------------------------------
(* Properties *)

\* C1: a destructive tool's execute is invoked in an act call only if
\* auto_approve was true or request_approval returned true in that call;
\* when approval is withheld act returns success=false and execute is not
\* invoked.
C1_DestructiveExecuteNeedsApproval ==
    act_trace.called =>
        /\ (act_trace.executed /\ action.tool_name \in destructive_operations)
              => (act_trace.auto \/ (act_trace.asked /\ act_trace.approved))
        /\ (act_trace.asked /\ ~act_trace.approved)
              => (/\ result.status = "returned"
                  /\ ~result.success
                  /\ ~act_trace.executed)

\* a destructive tool was executed after the user approved it, and the
\* history holds the decision
C1_Witness ==
    /\ act_trace.called
    /\ act_trace.executed
    /\ action.tool_name \in destructive_operations
    /\ ~act_trace.auto
    /\ act_trace.approved
    /\ Len(approval_history) = 1

\* the entries of the history made for this operation and fingerprint
SameOperationEntries(operation, parameters) ==
    {i \in DOMAIN approval_history :
        /\ approval_history[i].operation = operation
        /\ approval_history[i].parameters = parameters}

\* C2: whenever request_approval returns without invoking the callback or
\* the prompt, the value returned is the approved flag given in an earlier
\* call for the same operation with fingerprint-equal parameters, that
\* decision is less than 7 days old and its confidence is at least the
\* threshold.
C2_ReusedDecisionIsEarlierAnswer ==
    (last_approval.called /\ ~last_approval.prompted) =>
        /\ last_approval.confidence >= last_approval.threshold
        /\ \E i \in SameOperationEntries(last_approval.operation, last_approval.parameters) :
              /\ approval_history[i].approved = last_approval.returned
              /\ last_approval.time - approval_history[i].timestamp < RememberWindow

\* a step that is one request_approval call
IsApprovalCall == last_approval'.flip # last_approval.flip

\* C3: of two request_approval calls with identical operation and parameter
\* fingerprint, the second within the remember-window and with the
\* remembered confidence at or above the threshold, the second does not
\* invoke the callback or prompt and returns the first call's decision.
C3_SecondCallReusesFirstDecision ==
    [][(/\ IsApprovalCall
        /\ last_approval.called
        /\ last_approval'.operation = last_approval.operation
        /\ last_approval'.parameters = last_approval.parameters
        /\ last_approval'.time - last_approval.time < RememberWindow
        /\ last_approval'.found
        /\ last_approval'.confidence >= last_approval'.threshold)
       => (/\ ~last_approval'.prompted
           /\ last_approval'.returned = last_approval.returned)]_vars

\* C4: for every tool name not in the registry act returns success=false
\* with the unknown-tool error and calls no execute, whatever the approval
\* outcome.
C4_UnknownToolError ==
    (act_trace.called /\ action.kind = "action" /\ action.tool_name \notin Registry) =>
        /\ result.status = "returned"
        /\ ~result.success
        /\ result.error = "Tool not found"
        /\ ~act_trace.executed

\* the names an action's parameters supply, at the top level or under a
\* "required" / "optional" wrapper
SuppliedNames(parameters) ==
    DOMAIN parameters.top
    \cup (IF parameters.has_required THEN DOMAIN parameters.required ELSE {})
    \cup (IF parameters.has_optional THEN DOMAIN parameters.optional ELSE {})

MissingNames(tool, parameters) ==
    Range(required_params(tool)) \ SuppliedNames(parameters)

\* C5: when an action's parameters omit required names of the tool,
\* validation fails with one error for each missing name and for no other
\* name, and act returns a failure result without calling execute.
C5_ExactlyMissingNames ==
    (/\ act_trace.called
     /\ action.kind = "action"
     /\ action.tool_name \in Registry
     /\ ~(act_trace.asked /\ ~act_trace.approved)
     /\ MissingNames(action.tool_name, action.parameters) # {}) =>
        /\ result.status = "returned"
        /\ ~result.success
        /\ result.error = "Invalid parameters"
        /\ Len(result.errors) = Cardinality(Range(result.errors))
        /\ Range(result.errors) = MissingNames(action.tool_name, action.parameters)
        /\ ~act_trace.executed

\* C6: for every response the backend hands back, reason returns an action
\* whose tool_name is in the registry.
C6_ReasonReturnsRegisteredTool ==
    llm_trace.called = "reason" =>
        /\ action.kind = "action"
        /\ action.tool_name \in Registry

\* C7: if every backend fails, reason returns an action with a tool_name
\* that is in the registry, for every input.
C7_AllBackendsFail ==
    (llm_trace.called = "reason" /\ llm_trace.winner = "fallback") =>
        /\ action.kind = "action"
        /\ action.tool_name # "None"
        /\ action.tool_name \in Registry

\* every provider that could be attempted was attempted and failed, and
\* reason returned an action
C7_Witness ==
    /\ llm_trace.called = "reason"
    /\ llm_trace.winner = "fallback"
    /\ Len(attempts) = 3
    /\ user_input = "hello"
    /\ action.kind = "action"

IsPrefix(s, t) == Len(s) <= Len(t) /\ SubSeq(t, 1, Len(s)) = s

NoRepeats(s) == Cardinality(Range(s)) = Len(s)

\* the providers a call can attempt: the selected one, Ollama, and each
\* hosted API whose key is set
Available(p) ==
    \/ p = provider
    \/ p = "ollama"
    \/ (p = "openai" /\ openai_api_key)
    \/ (p = "groq" /\ groq_api_key)

Selected == IF provider \in Providers THEN <<provider>> ELSE << >>

OtherAvailable(p) == p # provider /\ Available(p)

\* the fallback responder answers only when every available provider was
\* attempted; otherwise the last provider attempted answered
FallbackIsLast ==
    /\ NoRepeats(attempts)
    /\ llm_trace.winner = "fallback" =>
          Range(attempts) = {p \in Providers : Available(p)}
    /\ llm_trace.winner # "fallback" =>
          (attempts # << >> /\ attempts[Len(attempts)] = llm_trace.winner)

\* C8 as stated: the selected provider first, then the remaining ones in
\* the order OpenAI, Groq, Ollama; none twice; the fallback responder only
\* after every available provider failed.
C8_PriorityOrder ==
    llm_trace.called # "none" =>
        /\ IsPrefix(attempts,
                    Selected \o SelectSeq(<<"openai", "groq", "ollama">>, OtherAvailable))
        /\ FallbackIsLast

\* C8: the selected provider first, then Ollama, then OpenAI, then Groq,
\* without the selected one and without a hosted API that has no key; none
\* twice; the fallback responder only after every available provider failed.
C8_OllamaSecond ==
    llm_trace.called # "none" =>
        /\ IsPrefix(attempts,
                    Selected \o SelectSeq(<<"ollama", "openai", "groq">>, OtherAvailable))
        /\ FallbackIsLast

\* a hosted provider was selected and failed, Ollama was attempted next and
\* the other hosted provider after it
C8_Witness ==
    /\ llm_trace.called # "none"
    /\ provider \in {"openai", "groq"}
    /\ Len(attempts) = 3
    /\ attempts[2] = "ollama"
    /\ llm_trace.winner = "fallback"

\* C9: a failure raised in a phase of a cycle is caught, the loop reads the
\* next input and the session stays active; end_session is called exactly
\* once and only after exit / quit or an interrupt.
C9_LoopSurvivesFailures ==
    [][/\ (cycle_trace'.raised # cycle_trace.raised /\ cycle_trace'.raised # "")
             => pc' = "handle_exception"
       /\ pc = "handle_exception"
             => (pc' = "read_input" /\ session_active' /\ end_session_calls' = 0)
       /\ pc' # "done" => (session_active' /\ end_session_calls' = 0)
       /\ end_session_calls' # end_session_calls
             => (/\ end_session_calls' = 1
                 /\ cycle_trace.ended_by \in {"exit", "interrupt"})
       /\ pc' = "done" => (~session_active' /\ end_session_calls' = 1)]_vars

\* after a failure in the act phase was handled the loop is reading the
\* next input with the session active
C9_Witness ==
    /\ pc = "read_input"
    /\ cycle_trace.raised = "act"
    /\ session_active
    /\ end_session_calls = 0

\* C10: when a tool's execute raises, act returns a failure result and the
\* cycle goes on to the learn phase with it.
C10_ActCatchesExecute ==
    (act_trace.called /\ act_trace.executed /\ act_trace.raised) =>
        /\ result.status = "returned"
        /\ ~result.success
        /\ cycle_trace.raised # "act"
        /\ pc \in {"learn", "display", "read_input"} \/ cycle_trace.learned


\* C17: get_preference(key, default) after store_preference calls returns the
\* value and the confidence of the most recent store for that key, whatever
\* was stored under other keys; for a key never stored it returns the default
\* with confidence 0.
C17_GetReturnsLastStore ==
    mem_trace.op = "get_preference" =>
        mem_trace.returned =
            IF mem_trace.key \in DOMAIN completed.last
            THEN completed.last[mem_trace.key]
            ELSE [value |-> mem_trace.default_value, confidence |-> 0]

C17_Witness ==
    /\ mem_trace.op = "get_preference"
    /\ Count(completed.stores, mem_trace.key) >= 2
    /\ \E other \in DOMAIN completed.last : other # mem_trace.key
    /\ mem_trace.returned = [value |-> Str("true"), confidence |-> 5]

\* the confidence stored for auto_approve, 0 when there is no row
AutoApproveConfidence ==
    get_preference(user_preferences, "auto_approve", Bool(FALSE)).confidence

\* C18: a feedback event answered "good" on a destructive operation never
\* lowers the confidence stored for auto_approve and never takes it above 1.0.
C18_GoodFeedbackConfidence ==
    [][(/\ mem_trace'.op = "feedback"
        /\ mem_trace'.flip # mem_trace.flip
        /\ mem_trace'.response = "good")
       => /\ AutoApproveConfidence' >= AutoApproveConfidence
          /\ AutoApproveConfidence' <= 10]_vars

C18_Witness ==
    /\ mem_trace.op = "feedback"
    /\ mem_trace.response = "good"
    /\ AutoApproveConfidence = 10
    /\ Count(completed.stores, "auto_approve") >= 2


\* C14: get_tool_effectiveness returns a success_rate in [0, 1]; for a pair
\* with k >= 1 recorded successes and no failure it returns success_rate 1.0
\* and usage_count k; for a pair never recorded it returns 0.5 and 0.
C14_EffectivenessOfRecordedUses ==
    mem_trace.op = "get_tool_effectiveness" =>
        LET ret  == mem_trace.returned
            done == Uses(completed.uses, mem_trace.key)
        IN  /\ ret.success_rate.den > 0
            /\ 0 <= ret.success_rate.num
            /\ ret.success_rate.num <= ret.success_rate.den
            /\ (done.success_count >= 1 /\ done.failure_count = 0)
                   => /\ ret.success_rate.num = ret.success_rate.den
                      /\ ret.usage_count = done.success_count
            /\ mem_trace.key \notin DOMAIN completed.uses
                   => /\ 2 * ret.success_rate.num = ret.success_rate.den
                      /\ ret.usage_count = 0

C14_Witness ==
    /\ mem_trace.op = "get_tool_effectiveness"
    /\ Uses(completed.uses, mem_trace.key) = [success_count |-> 2, failure_count |-> 0]
    /\ mem_trace.returned.usage_count = 2
    /\ \E other \in DOMAIN completed.uses :
           other # mem_trace.key /\ completed.uses[other].failure_count > 0

\* C15: cycles in the same session, directory and VCS dirtiness have the same
\* context fingerprint whatever the user input and the time, so the uses of
\* one tool there add up in one record: after the n-th such cycle the record
\* has usage_count n, and reason's lookup in that cycle saw the n - 1 before.
C15_SameSituationSameRecord ==
    mem_trace.op = "cycle" =>
        /\ mem_trace.recorded.usage_count = completed.cycles[mem_trace.situation]
        /\ mem_trace.seen.usage_count = completed.cycles[mem_trace.situation] - 1


RECURSIVE AsDict(_)
\* a context as Python compares dicts: the keys with their values, whatever
\* the order they were inserted in
AsDict(context) ==
    {<<context[i].key, context[i].value.kind, context[i].value.v,
       AsDict(context[i].value.items)>> : i \in DOMAIN context}

\* C16: generate_context_hash is deterministic and does not depend on the
\* order of the keys: equal dicts get equal fingerprints, and hashing the
\* same dict again gives the same fingerprint.
C16_HashOrderIndependent ==
    pure_trace.op = "generate_context_hash" =>
        /\ pure_trace.again = pure_trace.hash_a
        /\ AsDict(pure_trace.a) = AsDict(pure_trace.b)
               => pure_trace.hash_a = pure_trace.hash_b

C16_Witness ==
    /\ pure_trace.op = "generate_context_hash"
    /\ pure_trace.a # pure_trace.b
    /\ pure_trace.a[1].key # pure_trace.b[1].key
    /\ ValueOf(pure_trace.a, "git_status") # ValueOf(pure_trace.b, "git_status")
    /\ AsDict(pure_trace.a) = AsDict(pure_trace.b)
    /\ pure_trace.hash_a = pure_trace.hash_b

\* C20: _split_task_into_steps splits at the first delimiter of the list that
\* occurs and returns the non-empty trimmed parts in order; for an input
\* without a delimiter it returns the trimmed input as the only step.
C20_SplitAtFirstDelimiter ==
    pure_trace.op = "split" =>
        LET task  == pure_trace.task
            found == {n \in DOMAIN delimiters : Contains(Lower(task), delimiters[n])}
        IN  IF found # {}
            THEN pure_trace.steps =
                     StrippedParts(task, delimiters[CHOOSE n \in found : \A m \in found : n <= m])
            ELSE pure_trace.steps = <<strip(task)>>


\* C11: a failure of a persistent-store operation is swallowed and the loop
\* goes on with the cycle: the failure never reaches run's exception handler,
\* so reason still returns an action and act executes it in the same cycle.
C11_StoreFailureSwallowed ==
    ~(cycle_trace.store_failed /\ pc = "handle_exception")


\* C19: after the startup cleanup of an on-disk store every interaction row
\* older than the 30-day cutoff is gone and every row inside the window is
\* still there; for an in-memory store the pass is not run and no row is
\* removed.
C19_StartupCleanup ==
    mem_trace.op = "startup" =>
        IF db_path = ":memory:"
        THEN ~mem_trace.called /\ interaction_history = mem_trace.before
        ELSE /\ mem_trace.called
             /\ mem_trace.cleaned =>
                    \A row \in mem_trace.before :
                        row \in interaction_history
                            <=> row.timestamp >= mem_trace.at - RetentionDays

C19_Witness ==
    /\ mem_trace.op = "startup"
    /\ db_path = "agent_memory.db"
    /\ mem_trace.cleaned
    /\ \E row \in mem_trace.before : row \notin interaction_history
    /\ \E row \in interaction_history : row.timestamp = mem_trace.at - RetentionDays
    /\ \E row \in interaction_history : row.timestamp = mem_trace.at


\* a learning thread takes a step
LearnerStep == \E t \in Threads \ {0} : threads'[t] # threads[t] /\ threads[t].pc # "unstarted"

InLock == {t \in Threads : threads[t].pc \in {"locked", "write", "release"}}

Total(table, key) == Uses(table, key).success_count + Uses(table, key).failure_count

\* calls that have committed their row and not yet returned
Committed(ops) == Cardinality({t \in Threads : threads[t].pc = "release" /\ threads[t].op \in ops})

\* C13: under every interleaving of the threads at most one operation is
\* inside the critical section and no update is lost: success_count +
\* failure_count of a pair is the number of record_tool_usage calls that have
\* completed (a call that has committed and is about to return included) and
\* never decreases, and usage_count of a key is the number of completed
\* store_preference calls.
C13_NoLostUpdate ==
    [][/\ Cardinality(InLock') <= 1
       /\ Total(tool_effectiveness', ThreadKey)
              = Total(completed'.uses, ThreadKey) + Committed(RecordOps)'
       /\ Total(tool_effectiveness', ThreadKey) >= Total(tool_effectiveness, ThreadKey)
       /\ (IF ThreadPref \in DOMAIN user_preferences'
           THEN user_preferences'[ThreadPref].usage_count ELSE 0)
              = Count(completed'.stores, ThreadPref) + Committed({"store_preference"})']_vars

C13_Witness ==
    /\ Total(tool_effectiveness, ThreadKey) >= 1
    /\ \E t \in Threads \ {0} : threads[t].pc = "write" /\ threads[t].op = "record_tool_usage"
    /\ threads[0].pc = "acquire" /\ threads[0].op = "record_tool_usage"
    /\ ThreadPref \in DOMAIN user_preferences


\* C21: with no backend answering, reason on the input "what's in
\* package.json" (whatever the VCS status in the context) returns the action
\* with tool_name read_file and parameters {file_path: "package.json"}.
C21_FallbackReadsPackageJson ==
    (/\ llm_trace.called = "reason"
     /\ llm_trace.winner = "fallback"
     /\ user_input = "what's in package.json")
        => action = ActionOf("read_file", ReadFileParams("package.json"))

\* a step that is a call of start_session
SessionStarts ==
    /\ wm_trace'.op = "start_session"
    /\ current_session_id' # current_session_id

\* C22: after any sequence of start_session and end_session calls the working
\* memory holds at most max_sessions sessions; a start_session that exceeds
\* the cap evicts exactly the session with the oldest start time; the current
\* session id, when it is not null, names a retained session.
C22_SessionsCapped ==
    [][/\ Len(sessions') <= max_sessions
       /\ current_session_id' # NoSession => current_session_id' \in SessionIds(sessions')
       /\ (SessionStarts /\ Len(sessions) = max_sessions) =>
             \E old \in 1..Len(sessions) :
                 /\ wm_trace'.evicted = {sessions[old].id}
                 /\ \A j \in 1..Len(sessions) :
                        sessions[old].start_time <= sessions[j].start_time
                 /\ sessions[old].start_time <= now
                 /\ SessionIds(sessions') =
                        (SessionIds(sessions) \ {sessions[old].id}) \cup {wm_trace'.id}
       /\ (SessionStarts /\ Len(sessions) < max_sessions) =>
             wm_trace'.evicted = {}]_vars

C22_Witness ==
    /\ wm_trace.op = "start_session"
    /\ Cardinality(wm_trace.evicted) = 1
    /\ Len(sessions) = max_sessions
    /\ current_session_id = wm_trace.id
    /\ \E i \in 1..Len(sessions) : sessions[i].start_time = sessions[Len(sessions)].start_time
                                    /\ i < Len(sessions)

\* names an action supplies under the "required" or the "optional" wrapper
WrappedNames(parameters) ==
    (IF parameters.has_required THEN DOMAIN parameters.required ELSE {})
    \cup (IF parameters.has_optional THEN DOMAIN parameters.optional ELSE {})

\* C23: an action whose parameters are nested under "required", "optional"
\* or both, and that supplies every required name of its tool under a
\* wrapper, passes validation in act.
C23_WrappedArgumentsPass ==
    (/\ act_trace.called
     /\ action.kind = "action"
     /\ action.tool_name \in Registry
     /\ ~(act_trace.asked /\ ~act_trace.approved)
     /\ action.parameters.has_required \/ action.parameters.has_optional
     /\ Range(required_params(action.tool_name)) \subseteq WrappedNames(action.parameters))
        => result.error # "Invalid parameters"

\* the plain default value a schema's entry for an optional parameter names
SchemaDefault(entry) == Plain(entry.v)

\* C24: validation of a parameter map resolves every optional parameter the
\* map omits to the schema's plain default value, and every optional
\* parameter supplied as {default: v} or {value: v} to v.
C24_OptionalResolved ==
    (pure_trace.op = "validate_parameters" /\ pure_trace.validation.valid) =>
        \A param \in DOMAIN optional_params(pure_trace.tool) :
            LET resolved == pure_trace.validation.parameters
                supplied == pure_trace.supplied
            IN  /\ param \in DOMAIN resolved
                /\ param \notin DOMAIN supplied =>
                      resolved[param] = SchemaDefault(optional_params(pure_trace.tool)[param])
                /\ (param \in DOMAIN supplied /\ supplied[param].kind \in {"default", "value"}) =>
                      resolved[param] = Plain(supplied[param].v)

\* C25: the steps of a multi-step request run in list order, each through
\* perceive, reason, act and learn; a step starts only after the learn phase
\* of the step before it; when a step failed and the user declines, no later
\* step is reasoned about; after a successful step the next step runs.
C25_StepsInOrder ==
    [][/\ (pc' = "reason" /\ pc # "reason") => pc = "perceive"
       /\ (pc = "display" /\ pc' = "reason") =>
             /\ cycle_trace.learned
             /\ steps # << >>
             /\ user_input' = Head(steps)
             /\ steps' = Tail(steps)
       /\ (pc = "display" /\ pc' = "read_input") => steps' = << >>
       /\ (pc = "display" /\ steps # << >> /\ result.success
              /\ pc' \notin {"handle_exception", "end_session", "display"}) =>
             pc' = "reason"]_vars

\* C26: feedback on a destructive action moves the confidence stored for
\* auto_approve in the direction of the response: "good" raises it, "bad"
\* lowers it, any other response leaves the stored value and confidence as
\* they were.
C26_FeedbackDirection ==
    [][(mem_trace'.op = "feedback" /\ mem_trace'.flip # mem_trace.flip) =>
          /\ mem_trace'.response = "good" =>
                /\ AutoApproveConfidence' >= AutoApproveConfidence
                /\ AutoApproveConfidence < 10 => AutoApproveConfidence' > AutoApproveConfidence
          /\ mem_trace'.response = "bad" =>
                /\ AutoApproveConfidence' <= AutoApproveConfidence
                /\ AutoApproveConfidence > 0 => AutoApproveConfidence' < AutoApproveConfidence
          /\ mem_trace'.response \notin {"good", "bad"} =>
                get_preference(user_preferences', "auto_approve", Bool(FALSE))
                    = get_preference(user_preferences, "auto_approve", Bool(FALSE))]_vars

\* C27: a request_approval call that follows a reuse of the memoized decision
\* for the same fingerprint sees, at its lookup, a confidence strictly above
\* the one the reuse saw, until the confidence is 1.0.
C27_ReuseRaisesConfidence ==
    [][(/\ last_approval.called
        /\ last_approval.found
        /\ ~last_approval.prompted
        /\ last_approval'.called
        /\ last_approval'.flip # last_approval.flip
        /\ last_approval'.operation = last_approval.operation
        /\ last_approval'.parameters = last_approval.parameters
        /\ last_approval'.found)
       => \/ last_approval'.confidence > last_approval.confidence
          \/ last_approval.confidence = 10]_vars

\* C28: when the learn thread has ended, every insight of every generator
\* other than one that failed is stored: a failure in one generator, or in
\* the store of one of its insights, keeps no other generator's insights out
\* of the store.
C28_GeneratorsIndependent ==
    (wm_trace.op = "learn" /\ wm_trace.done) =>
        \A g \in InsightTypes :
            g # wm_trace.failed => wm_trace.stored[g] = wm_trace.yields[g]

\* the session of the agent in the working memory
OfAgent(ss) == CHOOSE i \in 1..Len(ss) : ss[i].id = AgentSession.id

\* C29: every learn call records its interaction once in each tier: after n
\* calls in the agent's session the session's log has n entries, the store
\* has n rows for the session, and get_memory_stats reports the count n and
\* the session's success rate.
C29_RecordedOncePerTier ==
    (wm_trace.op = "learn_call" /\ current_session_id = AgentSession.id) =>
        LET log      == sessions[OfAgent(sessions)].interactions
            rows     == {row \in interaction_history : row.session_id = AgentSession.id}
            good     == Cardinality({i \in 1..Len(log) : log[i]})
        IN  /\ Cardinality(rows) = Len(log)
            /\ wm_trace.stats.interaction_history_count = Len(log)
            /\ wm_trace.stats.interaction_success_rate.num * Len(log)
                   = good * wm_trace.stats.interaction_success_rate.den

\* C30: when every provider fails, the action reason returns (the backend's
\* fallback responder applied to the messages reason submits) has the
\* tool_name and the parameters of _fallback_reasoning applied to the raw
\* input, for every input.
C30_BackendFallbackSameMatcher ==
    (llm_trace.called = "reason" /\ llm_trace.winner = "fallback") =>
        /\ action.tool_name = _fallback_reasoning(user_input).tool_name
        /\ action.parameters = _fallback_reasoning(user_input).parameters

====
